---- MODULE Spec2Model ----
(***************************************************************************)
(* The feature-gated parser of javapp/parser.py (class JavaPlusPlusParser): *)
(* the per-instance feature flags and enable_feature; the import section:  *)
(* explicit forms, in-source feature directives, auto-injection and the    *)
(* sort of the injected block; and the expression productions: the         *)
(* speculative attempts of parse_conditional and parse_cast, the optional  *)
(* literals, the collection literals and the class creator.                *)
(*                                                                         *)
(* A Python str is a sequence of one-character strings, so that            *)
(* startswith, endswith, split, join and the lexicographic order of str    *)
(* are computed and not assumed.                                           *)
(***************************************************************************)
EXTENDS Integers, Sequences, FiniteSets, TLC

VARIABLES
    flags,       \* the instance attributes holding feature flags: attr name -> bool
    prev_flags,  \* flags before the last enable_feature call made by the caller
    calls,       \* the enable_feature calls made by the caller since construction
    error,       \* the exception the last operation raised, or NoError
    pc,          \* "ready" after construction, "parsed" / "failed" after the import section
    tokens,      \* the token stream handed to the parser
    pos,         \* the index of the current token (1-based)
    imports,     \* the list parse_import_section returned
    explicit,    \* the explicit import records, as collected before auto-injection
    injected,    \* auto_import_index: how many records were injected
    order,       \* the iteration order the run used for the auto-import tables
    log,         \* the enable_feature invocations the section's directives made
    entry,       \* the production the caller ran on the tokens ("" before a run)
    tree,        \* the syntax tree the production returned
    attempts,    \* the speculative attempts of the run, in the order they ended
    argv         \* the command line main() was given: --parse, --enable, --disable

vars == <<flags, prev_flags, calls, error, pc, tokens, pos, imports, explicit,
          injected, order, log, entry, tree, attempts, argv>>

----------------------------------------------------------------------------
(* Bounds *)

\* how many enable_feature calls a caller makes on one parser
MaxCalls == 2

----------------------------------------------------------------------------
(* Python str *)

\* the characters that occur, in code point order
CharOrder ==
    << "*", "+", ",", ".", ";",
       "A", "B", "C", "D", "E", "F", "G", "H", "I", "J", "K", "L", "M",
       "N", "O", "P", "Q", "R", "S", "T", "U", "V", "W", "X", "Y", "Z",
       "_",
       "a", "b", "c", "d", "e", "f", "g", "h", "i", "j", "k", "l", "m",
       "n", "o", "p", "q", "r", "s", "t", "u", "v", "w", "x", "y", "z" >>

Ord == [c \in {CharOrder[i] : i \in 1..Len(CharOrder)} |->
            CHOOSE i \in 1..Len(CharOrder) : CharOrder[i] = c]

\* -1, 0, 1 as s1 < s2, s1 = s2, s1 > s2 in Python's order of str: the
\* first place where the two differ decides, and a proper prefix is smaller
StrCmp(s1, s2) ==
    LET differ == {i \in 1..Len(s1) : i <= Len(s2) /\ s1[i] # s2[i]}
        first == CHOOSE i \in differ : \A j \in differ : i <= j
    IN  IF differ # {} THEN (IF Ord[s1[first]] < Ord[s2[first]] THEN -1 ELSE 1)
        ELSE IF Len(s1) = Len(s2) THEN 0
        ELSE IF Len(s1) < Len(s2) THEN -1 ELSE 1

startswith(s, prefix) ==
    Len(prefix) <= Len(s) /\ SubSeq(s, 1, Len(prefix)) = prefix

endswith(s, suffix) ==
    Len(suffix) <= Len(s) /\ SubSeq(s, Len(s) - Len(suffix) + 1, Len(s)) = suffix

\* s.split(sep) for a one-character sep: the list of the pieces, which lie
\* between one occurrence of sep (or the start) and the next (or the end)
split(s, sep) ==
    LET seps == {i \in 1..Len(s) : s[i] = sep}
        n == Cardinality(seps)
        at(k) == IF k = 0 THEN 0
                 ELSE IF k = n + 1 THEN Len(s) + 1
                 ELSE CHOOSE p \in seps : Cardinality({q \in seps : q < p}) = k - 1
    IN  [k \in 1..n + 1 |-> SubSeq(s, at(k - 1) + 1, at(k) - 1)]

\* sep.join(strs)
RECURSIVE join(_, _)
join(sep, strs) ==
    IF Len(strs) = 0 THEN <<>>
    ELSE IF Len(strs) = 1 THEN strs[1]
    ELSE strs[1] \o <<sep>> \o join(sep, Tail(strs))

reversed(seq) == [i \in 1..Len(seq) |-> seq[Len(seq) + 1 - i]]

\* the characters s[lo..hi] written as one string
RECURSIVE StrRange(_, _, _)
StrRange(s, lo, hi) ==
    IF lo > hi THEN ""
    ELSE IF lo = hi THEN s[lo]
    ELSE StrRange(s, lo, (lo + hi) \div 2) \o StrRange(s, (lo + hi) \div 2 + 1, hi)

\* the characters of s written as one string: an attribute name, a message
Str(s) == StrRange(s, 1, Len(s))

----------------------------------------------------------------------------
(* Feature flags *)

\* the order in which a run iterates the set supported_features is not
\* fixed by Python; enable_feature writes one constant to distinct
\* attributes, so the set is all that matters
supported_features ==
    { <<"s","t","a","t","e","m","e","n","t","s",".","p","r","i","n","t">>,
      <<"e","x","p","r","e","s","s","i","o","n","s",".","c","l","a","s","s","_","c","r","e","a","t","o","r">>,
      <<"l","i","t","e","r","a","l","s",".","c","o","l","l","e","c","t","i","o","n","s">>,
      <<"t","r","a","i","l","i","n","g","_","c","o","m","m","a","s",".","a","r","g","u","m","e","n","t">>,
      <<"t","r","a","i","l","i","n","g","_","c","o","m","m","a","s",".","o","t","h","e","r">>,
      <<"s","y","n","t","a","x",".","a","r","g","u","m","e","n","t","_","a","n","n","o","t","a","t","i","o","n","s">>,
      <<"a","u","t","o","_","i","m","p","o","r","t","s",".","t","y","p","e","s">>,
      <<"a","u","t","o","_","i","m","p","o","r","t","s",".","s","t","a","t","i","c","s">>,
      <<"s","y","n","t","a","x",".","m","u","l","t","i","p","l","e","_","i","m","p","o","r","t","_","s","e","c","t","i","o","n","s">>,
      <<"l","i","t","e","r","a","l","s",".","o","p","t","i","o","n","a","l">> }

\* (mutant) the identifiers joined in their written order
feature_name_to_attr_unreversed(name) == Str(join("_", split(name, ".")))

\* (mutant) the identifiers reversed and joined by the '.' that split them
feature_name_to_attr_dotted(name) == Str(join(".", reversed(split(name, "."))))

feature_name_to_attr(name) == Str(join("_", reversed(split(name, "."))))

\* an assignment that leaves the object as it was
setattr_dropped(obj, attr, value) == obj

\* setattr(self, attr, value)
setattr(obj, attr, value) ==
    [a \in (DOMAIN obj) \cup {attr} |-> IF a = attr THEN value ELSE obj[a]]

\* the attributes __init__ assigns
\* every attribute set to True
AllFlagsOn ==
    [attr \in {"print_statements", "collections_literals",
               "class_creator_expressions", "argument_trailing_commas",
               "other_trailing_commas", "argument_annotations_syntax",
               "types_auto_imports", "statics_auto_imports",
               "multiple_import_sections_syntax", "optional_literals"} |-> TRUE]

\* the attributes as __init__ leaves them
InitFlags ==
    ("print_statements" :> TRUE) @@
    ("collections_literals" :> TRUE) @@
    ("class_creator_expressions" :> TRUE) @@
    ("argument_trailing_commas" :> TRUE) @@
    ("other_trailing_commas" :> FALSE) @@
    ("argument_annotations_syntax" :> TRUE) @@
    ("types_auto_imports" :> TRUE) @@
    ("statics_auto_imports" :> TRUE) @@
    ("multiple_import_sections_syntax" :> TRUE) @@
    ("optional_literals" :> TRUE)

\* the attribute the parser reads for a feature ('if self.print_statements:')
FlagAttr ==
    (<<"s","t","a","t","e","m","e","n","t","s",".","p","r","i","n","t">> :> "print_statements") @@
    (<<"l","i","t","e","r","a","l","s",".","c","o","l","l","e","c","t","i","o","n","s">> :> "collections_literals") @@
    (<<"e","x","p","r","e","s","s","i","o","n","s",".","c","l","a","s","s","_","c","r","e","a","t","o","r">> :> "class_creator_expressions") @@
    (<<"t","r","a","i","l","i","n","g","_","c","o","m","m","a","s",".","a","r","g","u","m","e","n","t">> :> "argument_trailing_commas") @@
    (<<"t","r","a","i","l","i","n","g","_","c","o","m","m","a","s",".","o","t","h","e","r">> :> "other_trailing_commas") @@
    (<<"s","y","n","t","a","x",".","a","r","g","u","m","e","n","t","_","a","n","n","o","t","a","t","i","o","n","s">> :> "argument_annotations_syntax") @@
    (<<"a","u","t","o","_","i","m","p","o","r","t","s",".","t","y","p","e","s">> :> "types_auto_imports") @@
    (<<"a","u","t","o","_","i","m","p","o","r","t","s",".","s","t","a","t","i","c","s">> :> "statics_auto_imports") @@
    (<<"s","y","n","t","a","x",".","m","u","l","t","i","p","l","e","_","i","m","p","o","r","t","_","s","e","c","t","i","o","n","s">> :> "multiple_import_sections_syntax") @@
    (<<"l","i","t","e","r","a","l","s",".","o","p","t","i","o","n","a","l">> :> "optional_literals")

\* whether the parser holding the attributes obj sees the feature enabled
Enabled(obj, feature) == obj[FlagAttr[feature]]

\* an exception: its class, what it reports, the name it carries and, for a
\* JavaSyntaxError, the token position it is tagged with
NoError == [kind |-> "none", what |-> "", arg |-> "", at |-> 0]
ValueError(what, arg) ==
    [kind |-> "ValueError", what |-> what, arg |-> Str(arg), at |-> 0]
JavaSyntaxError(what, arg, at) ==
    [kind |-> "JavaSyntaxError", what |-> what, arg |-> Str(arg), at |-> at]
\* JavaSyntaxError(str(e), at=at) for a caught exception e
Converted(e, at) == [e EXCEPT !.kind = "JavaSyntaxError", !.at = at]

\* the attributes a loop 'for feature in supported_features: setattr(...)'
\* restricted to the features satisfying hit leaves behind
SetAll(obj, hit, enabled) ==
    LET attrs == {feature_name_to_attr(f) : f \in hit}
    IN  [a \in (DOMAIN obj) \cup attrs |-> IF a \in attrs THEN enabled ELSE obj[a]]

\* enable_feature(feature, enabled): the flags it leaves and the error it raises
PrefixHits(prefix) == {f \in supported_features : startswith(f, prefix)}

\* (mutant) the namespace branch without its 'if not found: raise'
enable_feature_unchecked(obj, feature, enabled) ==
    IF feature = <<"*">>
    THEN [flags |-> SetAll(obj, supported_features, enabled), error |-> NoError]
    ELSE IF feature \in supported_features
    THEN [flags |-> setattr(obj, feature_name_to_attr(feature), enabled),
          error |-> NoError]
    ELSE IF endswith(feature, <<".","*">>)
    THEN [flags |-> SetAll(obj, PrefixHits(SubSeq(feature, 1, Len(feature) - 2)), enabled),
          error |-> NoError]
    ELSE [flags |-> obj, error |-> ValueError("unsupported feature", feature)]

enable_feature(obj, feature, enabled) ==
    IF feature = <<"*">>
    THEN [flags |-> SetAll(obj, supported_features, enabled), error |-> NoError]
    ELSE IF feature \in supported_features
    THEN [flags |-> setattr(obj, feature_name_to_attr(feature), enabled),
          error |-> NoError]
    ELSE IF endswith(feature, <<".","*">>)
    THEN LET prefix == SubSeq(feature, 1, Len(feature) - 2)
             hit == PrefixHits(prefix)
         IN  IF hit # {}
             THEN [flags |-> SetAll(obj, hit, enabled), error |-> NoError]
             ELSE [flags |-> obj, error |-> ValueError("unsupported category", prefix)]
    ELSE [flags |-> obj, error |-> ValueError("unsupported feature", feature)]

----------------------------------------------------------------------------
(* Import records (java.tree.Import, java.tree.Name) *)

\* tree.Name(str): the dotted name, as the str and as the list of its identifiers
Name(str) == [str |-> str, parts |-> split(str, ".")]

\* str(name)
NameStr(name) == name.str

\* tree.Import(name, static, wildcard)
Import(name, static, wildcard) ==
    [name |-> name, static |-> static, wildcard |-> wildcard]

\* Python's None: equal to no str
None == <<"None", "">>

\* the dotted name without its last identifier (n = 1) or its last two (n = 2)
Qualifier(name, n) ==
    LET k == Len(name.parts)
        cut == IF n = 1 THEN Len(name.parts[k]) + 1
               ELSE Len(name.parts[k]) + Len(name.parts[k - 1]) + 2
    IN  IF k <= n THEN <<>> ELSE SubSeq(name.str, 1, Len(name.str) - cut)

\* Import.imported_package: the package of the import
imported_package(imp) ==
    IF imp.static
    THEN (IF imp.wildcard THEN Qualifier(imp.name, 1) ELSE Qualifier(imp.name, 2))
    ELSE (IF imp.wildcard THEN NameStr(imp.name) ELSE Qualifier(imp.name, 1))

\* Import.imported_type: the simple name of the type the import names
imported_type(imp) ==
    LET k == Len(imp.name.parts)
    IN  IF imp.static
        THEN IF imp.wildcard THEN imp.name.parts[k]
             ELSE (IF k >= 2 THEN imp.name.parts[k - 1] ELSE None)
        ELSE IF imp.wildcard THEN None
             ELSE imp.name.parts[k]

\* Import.imported_name: the simple name the import brings into scope
imported_name(imp) ==
    IF imp.wildcard THEN None ELSE imp.name.parts[Len(imp.name.parts)]

----------------------------------------------------------------------------
(* The auto-import tables *)

auto_imports ==
    <<
      [package |-> <<"j","a","v","a",".","u","t","i","l">>, wildcard |-> FALSE,
       types |-> << <<"L","i","s","t">>, <<"S","e","t">>, <<"M","a","p">>, <<"A","r","r","a","y","L","i","s","t">>,
                   <<"H","a","s","h","S","e","t">>, <<"H","a","s","h","M","a","p">>, <<"E","n","u","m","S","e","t">>, <<"C","o","l","l","e","c","t","i","o","n">>,
                   <<"I","t","e","r","a","t","o","r">>, <<"C","o","l","l","e","c","t","i","o","n","s">>, <<"A","r","r","a","y","s">>, <<"C","a","l","e","n","d","a","r">>,
                   <<"D","a","t","e">>, <<"E","n","u","m","M","a","p">>, <<"G","r","e","g","o","r","i","a","n","C","a","l","e","n","d","a","r">>, <<"L","o","c","a","l","e">>,
                   <<"O","b","j","e","c","t","s">>, <<"O","p","t","i","o","n","a","l">>, <<"O","p","t","i","o","n","a","l","D","o","u","b","l","e">>, <<"O","p","t","i","o","n","a","l","I","n","t">>,
                   <<"O","p","t","i","o","n","a","l","L","o","n","g">>, <<"P","r","o","p","e","r","t","i","e","s">>, <<"R","a","n","d","o","m">>, <<"S","c","a","n","n","e","r">>,
                   <<"S","p","l","i","t","e","r","a","t","o","r","s">>, <<"S","p","l","i","t","e","r","a","t","o","r">>, <<"T","i","m","e","r">>, <<"S","i","m","p","l","e","T","i","m","e","Z","o","n","e">>,
                   <<"T","i","m","e","Z","o","n","e">>, <<"U","U","I","D">>, <<"C","o","n","c","u","r","r","e","n","t","M","o","d","i","f","i","c","a","t","i","o","n","E","x","c","e","p","t","i","o","n">>, <<"N","o","S","u","c","h","E","l","e","m","e","n","t","E","x","c","e","p","t","i","o","n">> >>],
      [package |-> <<"j","a","v","a",".","u","t","i","l",".","s","t","r","e","a","m">>, wildcard |-> FALSE,
       types |-> << <<"C","o","l","l","e","c","t","o","r">>, <<"D","o","u","b","l","e","S","t","r","e","a","m">>, <<"I","n","t","S","t","r","e","a","m">>, <<"L","o","n","g","S","t","r","e","a","m">>,
                   <<"S","t","r","e","a","m">>, <<"C","o","l","l","e","c","t","o","r","s">>, <<"S","t","r","e","a","m","S","u","p","p","o","r","t">> >>],
      [package |-> <<"j","a","v","a",".","i","o">>, wildcard |-> FALSE,
       types |-> << <<"C","l","o","s","e","a","b","l","e">>, <<"S","e","r","i","a","l","i","z","a","b","l","e">>, <<"B","u","f","f","e","r","e","d","I","n","p","u","t","S","t","r","e","a","m">>, <<"B","u","f","f","e","r","e","d","O","u","t","p","u","t","S","t","r","e","a","m">>,
                   <<"B","u","f","f","e","r","e","d","R","e","a","d","e","r">>, <<"B","u","f","f","e","r","e","d","W","r","i","t","e","r">>, <<"B","y","t","e","A","r","r","a","y","I","n","p","u","t","S","t","r","e","a","m">>, <<"B","y","t","e","A","r","r","a","y","O","u","t","p","u","t","S","t","r","e","a","m">>,
                   <<"C","h","a","r","A","r","r","a","y","R","e","a","d","e","r">>, <<"C","h","a","r","A","r","r","a","y","W","r","i","t","e","r">>, <<"C","o","n","s","o","l","e">>, <<"F","i","l","e">>,
                   <<"F","i","l","e","I","n","p","u","t","S","t","r","e","a","m">>, <<"F","i","l","e","O","u","t","p","u","t","S","t","r","e","a","m">>, <<"F","i","l","e","R","e","a","d","e","r">>, <<"F","i","l","e","W","r","i","t","e","r">>,
                   <<"I","n","p","u","t","S","t","r","e","a","m">>, <<"I","n","p","u","t","S","t","r","e","a","m","R","e","a","d","e","r">>, <<"O","u","t","p","u","t","S","t","r","e","a","m">>, <<"O","u","t","p","u","t","S","t","r","e","a","m","W","r","i","t","e","r">>,
                   <<"P","r","i","n","t","S","t","r","e","a","m">>, <<"P","r","i","n","t","W","r","i","t","e","r">>, <<"R","e","a","d","e","r">>, <<"W","r","i","t","e","r">>,
                   <<"S","t","r","i","n","g","R","e","a","d","e","r">>, <<"S","t","r","i","n","g","W","r","i","t","e","r">>, <<"F","i","l","e","N","o","t","F","o","u","n","d","E","x","c","e","p","t","i","o","n">>, <<"I","O","E","x","c","e","p","t","i","o","n">>,
                   <<"I","O","E","r","r","o","r">> >>],
      [package |-> <<"j","a","v","a",".","n","i","o",".","f","i","l","e">>, wildcard |-> FALSE,
       types |-> << <<"P","a","t","h">>, <<"F","i","l","e","s">>, <<"P","a","t","h","s">>, <<"S","t","a","n","d","a","r","d","C","o","p","y","O","p","t","i","o","n">>,
                   <<"S","t","a","n","d","a","r","d","O","p","e","n","O","p","t","i","o","n">> >>],
      [package |-> <<"j","a","v","a",".","m","a","t","h">>, wildcard |-> FALSE,
       types |-> << <<"B","i","g","D","e","c","i","m","a","l">>, <<"B","i","g","I","n","t","e","g","e","r">>, <<"M","a","t","h","C","o","n","t","e","x","t">>, <<"R","o","u","n","d","i","n","g","M","o","d","e">> >>],
      [package |-> <<"j","a","v","a",".","n","i","o",".","c","h","a","r","s","e","t">>, wildcard |-> FALSE,
       types |-> << <<"S","t","a","n","d","a","r","d","C","h","a","r","s","e","t","s">> >>],
      [package |-> <<"j","a","v","a",".","u","t","i","l",".","c","o","n","c","u","r","r","e","n","t">>, wildcard |-> FALSE,
       types |-> << <<"C","a","l","l","a","b","l","e">>, <<"E","x","e","c","u","t","o","r","s">>, <<"T","i","m","e","U","n","i","t">> >>],
      [package |-> <<"j","a","v","a",".","u","t","i","l",".","f","u","n","c","t","i","o","n">>, wildcard |-> TRUE, types |-> <<>>],
      [package |-> <<"j","a","v","a",".","u","t","i","l",".","r","e","g","e","x">>, wildcard |-> FALSE,
       types |-> << <<"P","a","t","t","e","r","n">> >>]
    >>

static_imports ==
    << [package |-> <<"j","a","v","a",".","l","a","n","g">>,
        types |-> <<
           [typename |-> <<"B","o","o","l","e","a","n">>, wildcard |-> FALSE, members |-> << <<"p","a","r","s","e","B","o","o","l","e","a","n">> >>],
           [typename |-> <<"B","y","t","e">>, wildcard |-> FALSE, members |-> << <<"p","a","r","s","e","B","y","t","e">> >>],
           [typename |-> <<"D","o","u","b","l","e">>, wildcard |-> FALSE, members |-> << <<"p","a","r","s","e","D","o","u","b","l","e">> >>],
           [typename |-> <<"F","l","o","a","t">>, wildcard |-> FALSE, members |-> << <<"p","a","r","s","e","F","l","o","a","t">> >>],
           [typename |-> <<"I","n","t","e","g","e","r">>, wildcard |-> FALSE, members |-> << <<"p","a","r","s","e","I","n","t">>, <<"p","a","r","s","e","U","n","s","i","g","n","e","d","I","n","t">> >>],
           [typename |-> <<"L","o","n","g">>, wildcard |-> FALSE, members |-> << <<"p","a","r","s","e","L","o","n","g">>, <<"p","a","r","s","e","U","n","s","i","g","n","e","d","L","o","n","g">> >>],
           [typename |-> <<"S","h","o","r","t">>, wildcard |-> FALSE, members |-> << <<"p","a","r","s","e","S","h","o","r","t">> >>],
           [typename |-> <<"S","t","r","i","n","g">>, wildcard |-> FALSE, members |-> << <<"f","o","r","m","a","t">>, <<"j","o","i","n">> >>]
        >>]
    >>

\* how many iteration orders of the tables a run may take
MaxOrder == 1

IterOrders == 0..MaxOrder

\* the k-th iteration order of a table: as written, reversed, or rotated
\* left by k - 1 places
Iter(seq, k) ==
    IF k = 0 \/ Len(seq) <= 1 THEN seq
    ELSE IF k = 1 THEN reversed(seq)
    ELSE [i \in 1..Len(seq) |-> seq[((i - 1 + (k - 1)) % Len(seq)) + 1]]

----------------------------------------------------------------------------
(* parse_import_section: auto-injection *)

\* F(v), with v evaluated once
Bind(v, F(_)) == CHOOSE r \in {F(x) : x \in {v}} : TRUE

\* 'for x in seq: acc = Body(acc, x)', left when a body sets acc.stop (break).
\* The range is halved so that the evaluation nests to the logarithm of the
\* length; the bodies run in the order of seq, each on what its predecessor left
RECURSIVE ForRange(_, _, _, _, _)
ForRange(Body(_, _), acc, seq, lo, hi) ==
    IF lo > hi \/ acc.stop THEN acc
    ELSE IF lo = hi THEN Body(acc, seq[lo])
    ELSE LET mid == (lo + hi) \div 2
         IN  Bind(ForRange(Body, acc, seq, lo, mid),
                  LAMBDA left : ForRange(Body, left, seq, mid + 1, hi))

\* the for loop over seq, started with what acc holds; stop is the loop's own
ForEach(Body(_, _), acc, seq) ==
    Bind(acc, LAMBDA a0 :
        [ForRange(Body, [a0 EXCEPT !.stop = FALSE], seq, 1, Len(seq))
            EXCEPT !.stop = a0.stop])

\* imports.insert(0, imp); auto_import_index += 1
Inject(acc, imp) ==
    [acc EXCEPT !.imports = <<imp>> \o @,
                !.auto_import_index = @ + 1]

\* the index at which a loop 'for _import in imports: if hit: ...; break'
\* stops, 0 when it runs to the end
FirstIndex(hits) ==
    IF hits = {} THEN 0 ELSE CHOOSE i \in hits : \A j \in hits : i <= j

\* 'for _import in imports' of the wildcard entries: found
FindPackageWildcard(imps, package) ==
    \E i \in 1..Len(imps) :
        ~imps[i].static /\ imported_package(imps[i]) = package /\ imps[i].wildcard

\* the type scan, were a single-type import compared by its full name
FindType_exact(imps, package, typ) ==
    LET covers(i) == imported_package(imps[i]) = package /\ imps[i].wildcard
        same(i) == /\ ~imps[i].wildcard
                   /\ NameStr(imps[i].name) = package \o <<".">> \o typ
        stop == FirstIndex({i \in 1..Len(imps) :
                               ~imps[i].static /\ (covers(i) \/ same(i))})
    IN  IF stop = 0 THEN 0 ELSE IF covers(stop) THEN 2 ELSE 1

\* 'for _import in imports' of a type entry: found = 0, 1 or 2
FindType(imps, package, typ) ==
    LET covers(i) == imported_package(imps[i]) = package /\ imps[i].wildcard
        same(i) == imported_type(imps[i]) = typ
        stop == FirstIndex({i \in 1..Len(imps) :
                               ~imps[i].static /\ (covers(i) \/ same(i))})
    IN  IF stop = 0 THEN 0 ELSE IF covers(stop) THEN 2 ELSE 1

\* the body of 'for imported_type in imported_types'
TypeBody(acc, package, typ) ==
    LET found == FindType(acc.imports, package, typ)
    IN  IF found = 2 THEN [acc EXCEPT !.stop = TRUE]
        ELSE IF found = 1 THEN acc
        ELSE Inject(acc, Import(Name(package \o <<".">> \o typ), FALSE, FALSE))

\* the body of 'for package, imported_types in auto_imports.items()'
PackageBody(acc, e, k) ==
    IF e.wildcard
    THEN IF FindPackageWildcard(acc.imports, e.package) THEN acc
         ELSE Inject(acc, Import(Name(e.package), FALSE, TRUE))
    ELSE ForEach(LAMBDA a, typ : TypeBody(a, e.package, typ), acc, Iter(e.types, k))

\* the static wildcard entries: found
FindTypeWildcard(imps, package, typename) ==
    \E i \in 1..Len(imps) :
        /\ imps[i].static /\ imps[i].wildcard
        /\ imported_package(imps[i]) = package
        /\ imported_type(imps[i]) = typename

\* the member scan, were a static import compared by its full name
FindMember_exact(imps, package, typename, member) ==
    LET covers(i) == /\ imported_package(imps[i]) = package
                     /\ imported_type(imps[i]) = typename
                     /\ imps[i].wildcard
        same(i) == /\ ~imps[i].wildcard
                   /\ NameStr(imps[i].name) =
                          package \o <<".">> \o typename \o <<".">> \o member
        stop == FirstIndex({i \in 1..Len(imps) :
                               imps[i].static /\ (covers(i) \/ same(i))})
    IN  IF stop = 0 THEN 0 ELSE IF covers(stop) THEN 2 ELSE 1

\* 'for _import in imports' of a member entry: found = 0, 1 or 2
FindMember(imps, package, typename, member) ==
    LET covers(i) == /\ imported_package(imps[i]) = package
                     /\ imported_type(imps[i]) = typename
                     /\ imps[i].wildcard
        same(i) == imported_name(imps[i]) = member
        stop == FirstIndex({i \in 1..Len(imps) :
                               imps[i].static /\ (covers(i) \/ same(i))})
    IN  IF stop = 0 THEN 0 ELSE IF covers(stop) THEN 2 ELSE 1

\* the body of 'for member in members'
MemberBody(acc, package, typename, member) ==
    LET found == FindMember(acc.imports, package, typename, member)
    IN  IF found = 2 THEN [acc EXCEPT !.stop = TRUE]
        ELSE IF found = 1 THEN acc
        ELSE Inject(acc, Import(Name(package \o <<".">> \o typename
                                       \o <<".">> \o member),
                                TRUE, FALSE))

\* the body of 'for typename, members in types.items()'
StaticTypeBody(acc, package, e, k) ==
    IF e.wildcard
    THEN IF FindTypeWildcard(acc.imports, package, e.typename) THEN acc
         ELSE Inject(acc, Import(Name(package \o <<".">> \o e.typename), TRUE, TRUE))
    ELSE ForEach(LAMBDA a, member : MemberBody(a, package, e.typename, member),
                 acc, Iter(e.members, k))

\* the body of 'for package, types in static_imports.items()'
StaticPackageBody(acc, p, k) ==
    ForEach(LAMBDA a, e : StaticTypeBody(a, p.package, e, k), acc, Iter(p.types, k))

\* a comparison by the name alone
import_cmp_by_name(i1, i2) == StrCmp(NameStr(i1.name), NameStr(i2.name))

\* import_cmp(i1, i2)
import_cmp(i1, i2) ==
    IF i1.static /\ ~i2.static THEN -1
    ELSE IF ~i1.static /\ i2.static THEN 1
    ELSE IF i1.wildcard /\ ~i2.wildcard THEN -1
    ELSE IF ~i1.wildcard /\ i2.wildcard THEN 1
    ELSE StrCmp(NameStr(i1.name), NameStr(i2.name))

\* how many elements at the front of the sorted list s, among those at
\* lo + 1 .. hi, do not compare greater than x (found by bisection)
RECURSIVE UpperBound(_, _, _, _)
UpperBound(s, x, lo, hi) ==
    IF lo >= hi THEN lo
    ELSE LET mid == (lo + hi) \div 2
         IN  IF import_cmp(s[mid + 1], x) <= 0
             THEN UpperBound(s, x, mid + 1, hi)
             ELSE UpperBound(s, x, lo, mid)

\* x placed into the sorted list s behind the elements that do not compare greater
InsertSorted(s, x) ==
    Bind(UpperBound(s, x, 0, Len(s)),
         LAMBDA p : SubSeq(s, 1, p) \o <<x>> \o SubSeq(s, p + 1, Len(s)))

\* seq[lo..hi] placed one after the other into the sorted list acc
RECURSIVE SortRange(_, _, _, _)
SortRange(acc, seq, lo, hi) ==
    IF lo > hi THEN acc
    ELSE IF lo = hi THEN InsertSorted(acc, seq[lo])
    ELSE LET mid == (lo + hi) \div 2
         IN  Bind(SortRange(acc, seq, lo, mid),
                  LAMBDA left : SortRange(left, seq, mid + 1, hi))

\* the list left as it is
unsorted(seq) == seq

\* sorted(seq, key=cmp_to_key(import_cmp)): a stable sort (elements that
\* compare equal keep their order)
sorted(seq) == SortRange(<<>>, seq, 1, Len(seq))

\* an attribute read that always yields True
Flag_on(obj, attr) == TRUE

\* the flag an attribute read 'self.<attr>' yields
Flag(obj, attr) == obj[attr]

\* lines 120-203 of parse_import_section: injection and sort, given the
\* explicit imports, the flags and the iteration order k of the tables
AutoImport(imps, obj, k) ==
    LET a0 == [imports |-> imps, auto_import_index |-> 0, stop |-> FALSE]
        types(a) ==
            IF Flag(obj, "types_auto_imports")
            THEN ForEach(LAMBDA b, e : PackageBody(b, e, k), a, Iter(auto_imports, k))
            ELSE a
        statics(a) ==
            IF Flag(obj, "statics_auto_imports")
            THEN ForEach(LAMBDA b, p : StaticPackageBody(b, p, k), a,
                         Iter(static_imports, k))
            ELSE a
        finish(a) ==
            LET n == a.auto_import_index
            IN  [imports |-> IF n # 0
                             THEN Bind(SubSeq(a.imports, 1, n), sorted)
                                  \o SubSeq(a.imports, n + 1, Len(a.imports))
                             ELSE a.imports,
                 auto_import_index |-> n]
    IN  Bind(Bind(Bind(a0, types), statics), finish)

----------------------------------------------------------------------------
(* The token stream and the inherited parser (java.parser.JavaParser) *)

\* a token is its text; past the last token stands the end marker
ENDMARKER == <<>>

Token(T, p) == IF p >= 1 /\ p <= Len(T) THEN T[p] ELSE ENDMARKER

\* would_accept(*texts): the next tokens are texts, in this order
would_accept(T, p, texts) ==
    \A i \in 1..Len(texts) : Token(T, p + i - 1) = texts[i]

\* the primitive type names
Primitives == { <<"b","o","o","l","e","a","n">>, <<"b","y","t","e">>, <<"s","h","o","r","t">>, <<"c","h","a","r">>, <<"i","n","t">>, <<"l","o","n","g">>,
                <<"f","l","o","a","t">>, <<"d","o","u","b","l","e">> }

Keywords == { <<"i","m","p","o","r","t">>, <<"s","t","a","t","i","c">>, <<"c","l","a","s","s">>, <<"n","e","w">> } \cup Primitives

NameStart == {CharOrder[i] : i \in 6..Len(CharOrder)}

\* the token is of type NAME
IsName(t) == t # ENDMARKER /\ t[1] \in NameStart /\ t \notin Keywords

\* require(*texts) on the parser state s: consume them or raise
require(T, s, texts) ==
    IF would_accept(T, s.pos, texts)
    THEN [s EXCEPT !.pos = @ + Len(texts)]
    ELSE [s EXCEPT !.err = JavaSyntaxError("expected", texts[1], s.pos)]

\* parse_ident()
parse_ident(T, p) ==
    IF IsName(Token(T, p))
    THEN [pos |-> p + 1, name |-> Token(T, p), err |-> NoError]
    ELSE [pos |-> p, name |-> <<>>, err |-> JavaSyntaxError("expected", <<"N","A","M","E">>, p)]

\* the '.' NAME pairs that continue a qualified name
RECURSIVE QualNameRest(_, _, _)
QualNameRest(T, p, str) ==
    IF Token(T, p) = <<".">> /\ IsName(Token(T, p + 1))
    THEN QualNameRest(T, p + 2, str \o <<".">> \o Token(T, p + 1))
    ELSE [pos |-> p, str |-> str]

\* parse_qual_name(): NAME ('.' NAME)*
parse_qual_name(T, p) ==
    Bind(parse_ident(T, p), LAMBDA id :
        IF id.err # NoError THEN [pos |-> id.pos, name |-> Name(<<>>), err |-> id.err]
        ELSE Bind(QualNameRest(T, id.pos, id.name), LAMBDA q :
                 [pos |-> q.pos, name |-> Name(q.str), err |-> NoError]))

\* parse_import_name(): a qualified name and whether '.*' follows it
parse_import_name(T, p) ==
    Bind(parse_qual_name(T, p), LAMBDA q :
        IF q.err # NoError THEN [pos |-> q.pos, name |-> q.name, wildcard |-> FALSE, err |-> q.err]
        ELSE IF would_accept(T, q.pos, << <<".">>, <<"*">> >>)
        THEN [pos |-> q.pos + 2, name |-> q.name, wildcard |-> TRUE, err |-> NoError]
        ELSE [pos |-> q.pos, name |-> q.name, wildcard |-> FALSE, err |-> NoError])

\* name + name
NameAdd(n1, n2) == Name(n1.str \o <<".">> \o n2.str)

----------------------------------------------------------------------------
(* parse_import_section: the explicit forms and the feature directives *)

\* The parser state a production works on: the position, the flags, the
\* enable_feature calls made so far, the import records collected so far and
\* the exception being raised

Call(feature, enabled) == [feature |-> feature, enabled |-> enabled]

\* self.enable_feature(feature, enabled) inside a production
Directive(s, feature, enabled) ==
    Bind(enable_feature(s.flags, feature, enabled), LAMBDA r :
        [s EXCEPT !.flags = r.flags,
                  !.log = Append(@, Call(feature, enabled)),
                  !.err = r.error])

\* 'while self.accept('.')' of a feature path; star is what a '*' appends
RECURSIVE FeaturePathRest(_, _, _, _)
FeaturePathRest(T, p, feature, star) ==
    IF Token(T, p) # <<".">> THEN [pos |-> p, feature |-> feature, err |-> NoError]
    ELSE IF Token(T, p + 1) = <<"*">>
    THEN [pos |-> p + 2, feature |-> feature \o star, err |-> NoError]
    ELSE Bind(parse_ident(T, p + 1), LAMBDA id :
             IF id.err # NoError
             THEN [pos |-> id.pos, feature |-> feature, err |-> id.err]
             ELSE FeaturePathRest(T, id.pos, feature \o <<".">> \o id.name, star))

\* the feature a directive of 'import java++' / 'unimport java++' names,
\* read from the token behind '++'
DirectiveName(T, p) ==
    IF would_accept(T, p, << <<".">>, <<"*">> >>)
    THEN [pos |-> p + 2, feature |-> <<"*">>, err |-> NoError]
    ELSE IF Token(T, p) # <<".">>
    THEN [pos |-> p, feature |-> <<>>, err |-> JavaSyntaxError("expected", <<".">>, p)]
    ELSE Bind(parse_ident(T, p + 1), LAMBDA id :
             IF id.err # NoError
             THEN [pos |-> id.pos, feature |-> <<>>, err |-> id.err]
             ELSE FeaturePathRest(T, id.pos, id.name, <<".","*">>))

\* one turn of the loop of parse_import_declarations, up to its accept(',')
ImportItem(T, s, static) ==
    IF ~static /\ would_accept(T, s.pos, << <<"j","a","v","a">>, <<"+","+">> >>)
    THEN Bind(DirectiveName(T, s.pos + 2), LAMBDA d :
             IF d.err # NoError THEN [s EXCEPT !.pos = d.pos, !.err = d.err]
             ELSE Directive([s EXCEPT !.pos = d.pos], d.feature, TRUE))
    ELSE Bind(parse_import_name(T, s.pos), LAMBDA n :
             IF n.err # NoError THEN [s EXCEPT !.pos = n.pos, !.err = n.err]
             ELSE [s EXCEPT !.pos = n.pos,
                            !.imports = Append(@, Import(n.name, static, n.wildcard))])

\* 'if not self.accept(','): break' and the trailing-comma break that end a
\* turn of a comma-separated list closed by ';': again tells whether the
\* loop takes another turn
AfterItem(T, s) ==
    IF Token(T, s.pos) # <<",">> THEN [s |-> s, again |-> FALSE]
    ELSE IF Flag(s.flags, "other_trailing_commas") /\ Token(T, s.pos + 1) = <<";">>
    THEN [s |-> [s EXCEPT !.pos = @ + 1], again |-> FALSE]
    ELSE [s |-> [s EXCEPT !.pos = @ + 1], again |-> TRUE]

RECURSIVE ImportLoop(_, _, _)
ImportLoop(T, s, static) ==
    Bind(ImportItem(T, s, static), LAMBDA s1 :
        IF s1.err # NoError THEN s1
        ELSE Bind(AfterItem(T, s1), LAMBDA a :
                 IF a.again THEN ImportLoop(T, a.s, static) ELSE a.s))

parse_import_declarations(T, s) ==
    LET static == Token(T, s.pos + 1) = <<"s","t","a","t","i","c">>
        start == IF static THEN s.pos + 2 ELSE s.pos + 1
    IN  Bind(ImportLoop(T, [s EXCEPT !.pos = start], static), LAMBDA s1 :
            IF s1.err # NoError THEN s1 ELSE require(T, s1, << <<";">> >>))

RECURSIVE UnimportLoop(_, _)
UnimportLoop(T, s) ==
    Bind(DirectiveName(T, s.pos), LAMBDA d :
        IF d.err # NoError THEN [s EXCEPT !.pos = d.pos, !.err = d.err]
        ELSE Bind(Directive([s EXCEPT !.pos = d.pos], d.feature, FALSE), LAMBDA s1 :
                 IF s1.err # NoError THEN s1
                 ELSE Bind(AfterItem(T, s1), LAMBDA a :
                          IF a.again THEN UnimportLoop(T, a.s) ELSE a.s)))

parse_unimport(T, s) ==
    Bind(require(T, [s EXCEPT !.pos = @ + 1], << <<"j","a","v","a">>, <<"+","+">> >>), LAMBDA s1 :
        IF s1.err # NoError THEN s1 ELSE UnimportLoop(T, s1))

\* the loop over the features of 'from java++ import|unimport'
RECURSIVE FromFeatureLoop(_, _, _)
FromFeatureLoop(T, s, enable) ==
    LET start_pos == s.pos
    IN  Bind(parse_ident(T, s.pos), LAMBDA id :
            IF id.err # NoError THEN [s EXCEPT !.pos = id.pos, !.err = id.err]
            ELSE Bind(FeaturePathRest(T, id.pos, id.name, <<"*">>), LAMBDA d :
                IF d.err # NoError THEN [s EXCEPT !.pos = d.pos, !.err = d.err]
                ELSE Bind(Directive([s EXCEPT !.pos = d.pos], d.feature, enable),
                          LAMBDA s1 :
                    IF s1.err # NoError
                    THEN [s1 EXCEPT !.err = Converted(s1.err, start_pos)]
                    ELSE Bind(AfterItem(T, s1), LAMBDA a :
                             IF a.again THEN FromFeatureLoop(T, a.s, enable)
                             ELSE a.s))))

\* parse_from_import_name(base_name)
parse_from_import_name(T, p, base_name) ==
    IF Token(T, p) = <<"*">>
    THEN [pos |-> p + 1, name |-> base_name, wildcard |-> TRUE, err |-> NoError]
    ELSE Bind(parse_qual_name(T, p), LAMBDA q :
             IF q.err # NoError
             THEN [pos |-> q.pos, name |-> base_name, wildcard |-> FALSE, err |-> q.err]
             ELSE IF would_accept(T, q.pos, << <<".">>, <<"*">> >>)
             THEN [pos |-> q.pos + 2, name |-> NameAdd(base_name, q.name),
                   wildcard |-> TRUE, err |-> NoError]
             ELSE [pos |-> q.pos, name |-> NameAdd(base_name, q.name),
                   wildcard |-> FALSE, err |-> NoError])

\* 'while self.accept(',')' of 'from base import ...'
RECURSIVE FromNamesRest(_, _, _, _)
FromNamesRest(T, s, base, static) ==
    IF Token(T, s.pos) # <<",">> THEN s
    ELSE IF Flag(s.flags, "other_trailing_commas") /\ Token(T, s.pos + 1) = <<";">>
    THEN [s EXCEPT !.pos = @ + 1]
    ELSE Bind(parse_from_import_name(T, s.pos + 1, base), LAMBDA n :
             IF n.err # NoError THEN [s EXCEPT !.pos = n.pos, !.err = n.err]
             ELSE FromNamesRest(T,
                      [s EXCEPT !.pos = n.pos,
                                !.imports = Append(@, Import(n.name, static, n.wildcard))],
                      base, static))

\* the branch 'from <base> import [static] name, ...' up to the final ';'
FromNames(T, s) ==
    Bind(parse_qual_name(T, s.pos), LAMBDA b :
        IF b.err # NoError THEN [s EXCEPT !.pos = b.pos, !.err = b.err]
        ELSE Bind(require(T, [s EXCEPT !.pos = b.pos], << <<"i","m","p","o","r","t">> >>), LAMBDA s1 :
            IF s1.err # NoError THEN s1
            ELSE LET static == Token(T, s1.pos) = <<"s","t","a","t","i","c">>
                     p == IF static THEN s1.pos + 1 ELSE s1.pos
                 IN  Bind(parse_from_import_name(T, p, b.name), LAMBDA n :
                         IF n.err # NoError THEN [s1 EXCEPT !.pos = n.pos, !.err = n.err]
                         ELSE FromNamesRest(T,
                                  [s1 EXCEPT !.pos = n.pos,
                                             !.imports = Append(@, Import(n.name, static,
                                                                          n.wildcard))],
                                  b.name, static))))

\* the branch 'from java++ import|unimport ...' up to the final ';'
FromFeatures(T, s) ==
    LET p == s.pos + 2
        enable == Token(T, p) = <<"i","m","p","o","r","t">>
    IN  IF ~enable /\ Token(T, p) # <<"u","n","i","m","p","o","r","t">>
        THEN [s EXCEPT !.pos = p, !.err = JavaSyntaxError("expected", <<"u","n","i","m","p","o","r","t">>, p)]
        ELSE IF Token(T, p + 1) = <<"*">>
        THEN Directive([s EXCEPT !.pos = p + 2], <<"*">>, enable)
        ELSE FromFeatureLoop(T, [s EXCEPT !.pos = p + 1], enable)

parse_from_import_declarations(T, s) ==
    Bind(IF would_accept(T, s.pos + 1, << <<"j","a","v","a">>, <<"+","+">> >>)
         THEN FromFeatures(T, [s EXCEPT !.pos = @ + 1])
         ELSE FromNames(T, [s EXCEPT !.pos = @ + 1]),
         LAMBDA s1 : IF s1.err # NoError THEN s1 ELSE require(T, s1, << <<";">> >>))

\* the 'while True' loop of parse_import_section
RECURSIVE SectionLoop(_, _)
SectionLoop(T, s) ==
    IF s.err # NoError THEN s
    ELSE IF Token(T, s.pos) = <<"i","m","p","o","r","t">>
    THEN Bind(parse_import_declarations(T, s), LAMBDA s1 : SectionLoop(T, s1))
    ELSE IF Token(T, s.pos) = <<"f","r","o","m">>
    THEN Bind(parse_from_import_declarations(T, s), LAMBDA s1 : SectionLoop(T, s1))
    ELSE IF Token(T, s.pos) = <<"u","n","i","m","p","o","r","t">>
    THEN Bind(parse_unimport(T, s), LAMBDA s1 : SectionLoop(T, s1))
    ELSE IF Token(T, s.pos) = <<";">>
    THEN SectionLoop(T, [s EXCEPT !.pos = @ + 1])
    ELSE s

\* parse_import_section() on the tokens T from position p under the flags obj,
\* the tables iterated in their k-th order
parse_import_section(T, p, obj, k) ==
    Bind(SectionLoop(T, [pos |-> p, flags |-> obj, log |-> <<>>, imports |-> <<>>,
                         err |-> NoError]),
         LAMBDA s :
            IF s.err # NoError
            THEN [pos |-> s.pos, flags |-> s.flags, log |-> s.log, err |-> s.err,
                  explicit |-> s.imports, imports |-> <<>>, auto_import_index |-> 0]
            ELSE Bind(AutoImport(s.imports, s.flags, k), LAMBDA a :
                     [pos |-> s.pos, flags |-> s.flags, log |-> s.log, err |-> NoError,
                      explicit |-> s.imports, imports |-> a.imports,
                      auto_import_index |-> a.auto_import_index]))

----------------------------------------------------------------------------
(* Expressions: the syntax tree (java.tree) *)

NoNode == [node |-> "None"]
NameExpr(name) == [node |-> "Name", name |-> name]
PrimitiveType(name) == [node |-> "PrimitiveType", name |-> name]
GenericType(name) == [node |-> "GenericType", name |-> name]
MemberAccess(name, object) ==
    [node |-> "MemberAccess", name |-> name, object |-> object]
FunctionCall(name, object, args, typeargs) ==
    [node |-> "FunctionCall", name |-> name, object |-> object, args |-> args,
     typeargs |-> typeargs]
ConditionalExpression(condition, truepart, falsepart) ==
    [node |-> "ConditionalExpression", condition |-> condition,
     truepart |-> truepart, falsepart |-> falsepart]
Parenthesis(expr) == [node |-> "Parenthesis", expr |-> expr]
ClassCreator(type, args, typeargs, members) ==
    [node |-> "ClassCreator", type |-> type, args |-> args, typeargs |-> typeargs,
     members |-> members]

\* 'for part in qualname.split('.')' of make_member_access_from_dotted_name
RECURSIVE MemberAccessChain(_, _)
MemberAccessChain(parts, n) ==
    IF n = 0 THEN NoNode
    ELSE MemberAccess(Str(parts[n]), MemberAccessChain(parts, n - 1))

make_member_access_from_dotted_name(qualname) ==
    Bind(split(qualname, "."), LAMBDA parts : MemberAccessChain(parts, Len(parts)))

\* primitive_to_wrapper(typ): the wrapper class of a primitive type or of
\* void, typ itself otherwise
primitive_to_wrapper(typ) ==
    IF typ.node = "PrimitiveType"
    THEN IF typ.name = "boolean" THEN GenericType("java.lang.Boolean")
         ELSE IF typ.name = "byte" THEN GenericType("java.lang.Byte")
         ELSE IF typ.name = "short" THEN GenericType("java.lang.Short")
         ELSE IF typ.name = "char" THEN GenericType("java.lang.Character")
         ELSE IF typ.name = "int" THEN GenericType("java.lang.Integer")
         ELSE IF typ.name = "long" THEN GenericType("java.lang.Long")
         ELSE IF typ.name = "float" THEN GenericType("java.lang.Float")
         ELSE GenericType("java.lang.Double")
    ELSE IF typ.node = "VoidType" THEN GenericType("java.lang.Void")
    ELSE typ

----------------------------------------------------------------------------
(* Expressions: the parser state and the checkpoints of the token stream *)

\* An expression production works on the position, the flags, the exception
\* being raised and the value returned; ev is the history of the speculative
\* attempts that have ended, kept for the properties below.

AttributeError(type, attr) ==
    [kind |-> "AttributeError", what |-> type, arg |-> attr, at |-> 0]

Ok(s, p, v) == [s EXCEPT !.pos = p, !.val = v]
Raise(s, e) == [s EXCEPT !.err = e]
Return(s, v) == [s EXCEPT !.val = v]
Skip(s, n) == [s EXCEPT !.pos = @ + n]

\* the token is of type NUMBER
IsNumber(t) ==
    t # ENDMARKER /\ t[1] \in {"0", "1", "2", "3", "4", "5", "6", "7", "8", "9"}

\* would_accept(NAME, '->')
would_accept_lambda_name(T, p) == IsName(Token(T, p)) /\ Token(T, p + 1) = <<"-",">">>

\* 'with self.tokens:' left by a body that began in s0 and ended in s1: the
\* tokens consumed are kept when the body returned, and the stream is back at
\* the position of s0 when the body raised; the exception goes on
WithTokens(s0, s1) == IF s1.err # NoError THEN [s1 EXCEPT !.pos = s0.pos] ELSE s1

\* the record of one attempt: where it began, whether its body returned, how
\* far the body had read, where the stream stood after the with statement,
\* and whether the flags at its end were those of its start
Attempt(site, s0, s1, s2) ==
    [site |-> site, phase |-> "attempt", at |-> s0.pos, ok |-> s1.err = NoError,
     reached |-> s1.pos, resume |-> s2.pos, err |-> s1.err,
     kept |-> s1.flags = s0.flags]

\* the attempt made without the with statement
Attempted_unguarded(site, s0, s1) ==
    [s1 EXCEPT !.ev = Append(@, Attempt(site, s0, s1, s1))]

\* 'try: with self.tokens: body' left by the body; the exception that leaves
\* the with statement is the one the body raised
Attempted(site, s0, s1) ==
    LET s2 == WithTokens(s0, s1)
    IN  [s2 EXCEPT !.ev = Append(@, Attempt(site, s0, s1, s2))]

\* 'except JavaSyntaxError:' entered: the exception is dropped
Except_kept(s) == s

Except(s) == [s EXCEPT !.err = NoError]

\* the except clause of an attempt that began in s0 left: h is the state the
\* clause started with, s3 the state it ended in
Handled(site, s0, h, s3) ==
    [s3 EXCEPT !.ev = Append(@,
        [site |-> site, phase |-> "fallback", at |-> s0.pos, ok |-> s3.err = NoError,
         reached |-> s3.pos, resume |-> h.pos, err |-> s3.err,
         kept |-> s3.flags = s0.flags])]

\* the statements after one that may raise: s is the state that one left
Then(s, F(_)) == IF s.err # NoError THEN s ELSE F(s)

\* try: with self.tokens: body   except JavaSyntaxError: Handler, for a body
\* that began in s0 and ended in s1
Try(site, s0, s1, Handler(_)) ==
    LET h == Except(Attempted(site, s0, s1))
    IN  IF s1.err.kind # "JavaSyntaxError" THEN Attempted(site, s0, s1)
        ELSE Handled(site, s0, h, Handler(h))

----------------------------------------------------------------------------
(* Expressions: the productions *)

RECURSIVE parse_conditional(_, _)
RECURSIVE parse_cast(_, _)
RECURSIVE parse_postfix(_, _)
RECURSIVE PostfixRest(_, _)
RECURSIVE parse_primary(_, _)
RECURSIVE base_parse_primary(_, _)
RECURSIVE parse_lambda(_, _)
RECURSIVE parse_logic_or_expr(_, _)
RECURSIVE LogicOrRest(_, _)
RECURSIVE parse_list_literal(_, _)
RECURSIVE parse_map_literal(_, _)
RECURSIVE parse_map_entry(_, _)
RECURSIVE parse_set_literal_rest(_, _, _)
RECURSIVE ElementsRest(_, _, _, _)
RECURSIVE EntriesRest(_, _, _, _)
RECURSIVE parse_class_creator_rest(_, _, _, _)
RECURSIVE parse_args(_, _)
RECURSIVE ArgsRest(_, _, _)
RECURSIVE parse_arg(_, _)

\* parse_assignment() and parse_expr() of the inherited parser: the streams
\* hold no assignment operator, so both are the conditional expression
parse_assignment(T, s) == parse_conditional(T, s)
parse_expr(T, s) == parse_conditional(T, s)

\* parse_type(), parse_cast_type(): a primitive type or a named type
parse_type(T, s) ==
    IF Token(T, s.pos) \in Primitives
    THEN Ok(s, s.pos + 1, PrimitiveType(Str(Token(T, s.pos))))
    ELSE IF IsName(Token(T, s.pos))
    THEN Ok(s, s.pos + 1, GenericType(Str(Token(T, s.pos))))
    ELSE Raise(s, JavaSyntaxError("expected", <<"t","y","p","e">>, s.pos))

parse_cast_type(T, s) == parse_type(T, s)

\* parse_type_arg(): the wildcard '?' or a type
parse_type_arg(T, s) ==
    IF Token(T, s.pos) = <<"?">> THEN Ok(s, s.pos + 1, [node |-> "TypeArgument"]) ELSE parse_type(T, s)

\* parse_class_body(): '{' (NAME ';')* '}'
RECURSIVE ClassMembers(_, _, _)
ClassMembers(T, s, members) ==
    IF IsName(Token(T, s.pos)) /\ Token(T, s.pos + 1) = <<";">>
    THEN ClassMembers(T, Skip(s, 2), Append(members, Str(Token(T, s.pos))))
    ELSE Return(s, members)

parse_class_body(T, s) ==
    Then(require(T, s, << <<"{">> >>), LAMBDA a :
    Then(ClassMembers(T, a, <<>>), LAMBDA b :
    Then(require(T, b, << <<"}">> >>), LAMBDA c : Return(c, [node |-> "ClassBody", members |-> b.val]))))

\* the parameters NAME (',' NAME)* of a lambda in parentheses
RECURSIVE LambdaParams(_, _, _)
LambdaParams(T, s, names) ==
    IF ~IsName(Token(T, s.pos)) THEN Raise(s, JavaSyntaxError("expected", <<"N","A","M","E">>, s.pos))
    ELSE IF Token(T, s.pos + 1) = <<",">>
    THEN LambdaParams(T, Skip(s, 2), Append(names, Str(Token(T, s.pos))))
    ELSE Ok(s, s.pos + 1, Append(names, Str(Token(T, s.pos))))

\* parse_lambda(): NAME '->' body, or '(' parameters ')' '->' body
parse_lambda(T, s) ==
    Then(IF IsName(Token(T, s.pos)) THEN Ok(s, s.pos + 1, << Str(Token(T, s.pos)) >>)
         ELSE IF Token(T, s.pos) # <<"(">>
         THEN Raise(s, JavaSyntaxError("expected", <<"(">>, s.pos))
         ELSE IF Token(T, s.pos + 1) = <<")">> THEN Ok(s, s.pos + 2, <<>>)
         ELSE Then(LambdaParams(T, Skip(s, 1), <<>>), LAMBDA r :
                  require(T, r, << <<")">> >>)),
         LAMBDA params :
    Then(require(T, params, << <<"-",">">> >>), LAMBDA a :
    Then(parse_expr(T, a), LAMBDA b : Return(b, [node |-> "Lambda", params |-> params.val, body |-> b.val]))))

\* parse_logic_or_expr(): the binary operators end in parse_cast; the
\* streams hold the one operator '+'
LogicOrRest(T, s) ==
    IF Token(T, s.pos) # <<"+">> THEN s
    ELSE Then(parse_cast(T, Skip(s, 1)), LAMBDA r :
             LogicOrRest(T, Return(r, [node |-> "BinaryExpression", op |-> "+",
                                      lhs |-> s.val, rhs |-> r.val])))

parse_logic_or_expr(T, s) == Then(parse_cast(T, s), LAMBDA r : LogicOrRest(T, r))

\* lines 546-577
parse_optional_literal_rest(T, s, value) ==
    Then(IF value.node = "CastExpression" /\ value.type.node = "PrimitiveType"
         THEN \* value.name: a CastExpression has the fields type and expr
              Raise(s, AttributeError("CastExpression", "name"))
         ELSE Return(s, [typename |-> <<"O","p","t","i","o","n","a","l">>, name |-> "ofNullable"]),
         LAMBDA n :
    IF Token(T, n.pos) = <<"<">>
    THEN IF would_accept(T, n.pos + 1, << <<"i","n","t">>, <<">">> >>)
         THEN Ok(n, n.pos + 3, FunctionCall("of",
                  make_member_access_from_dotted_name(<<"j","a","v","a",".","u","t","i","l",".","O","p","t","i","o","n","a","l","I","n","t">>),
                  << value >>, <<>>))
         ELSE IF would_accept(T, n.pos + 1, << <<"d","o","u","b","l","e">>, <<">">> >>)
         THEN Ok(n, n.pos + 3, FunctionCall("of",
                  make_member_access_from_dotted_name(<<"j","a","v","a",".","u","t","i","l",".","O","p","t","i","o","n","a","l","D","o","u","b","l","e">>),
                  << value >>, <<>>))
         ELSE IF would_accept(T, n.pos + 1, << <<"l","o","n","g">>, <<">">> >>)
         THEN Ok(n, n.pos + 3, FunctionCall("of",
                  make_member_access_from_dotted_name(<<"j","a","v","a",".","u","t","i","l",".","O","p","t","i","o","n","a","l","L","o","n","g">>),
                  << value >>, <<>>))
         ELSE Then(IF Token(T, n.pos + 1) = <<"?">> THEN parse_type_arg(T, Skip(n, 1))
                   ELSE parse_type(T, Skip(n, 1)), LAMBDA typ :
              Then(require(T, typ, << <<">">> >>), LAMBDA r :
                  Return(r, FunctionCall(n.val.name,
                      make_member_access_from_dotted_name(<<"j","a","v","a",".","u","t","i","l",".","O","p","t","i","o","n","a","l">>),
                      << value >>, << primitive_to_wrapper(typ.val) >>))))
    ELSE Return(n, FunctionCall(n.val.name,
             make_member_access_from_dotted_name(<<"j","a","v","a",".","u","t","i","l",".">> \o n.val.typename),
             << value >>, <<>>)))

\* the rest of a ternary behind the '?', whatever follows it and whatever
\* the flags
ConditionalRest_ternary(T, s) ==
    IF Token(T, s.pos) # <<"?">> THEN s
    ELSE Then(parse_assignment(T, Skip(s, 1)), LAMBDA truepart :
         Then(require(T, truepart, << <<":">> >>), LAMBDA c :
         Then(parse_conditional(T, c), LAMBDA falsepart :
             Return(falsepart,
                    ConditionalExpression(s.val, truepart.val, falsepart.val)))))

\* lines 537-544: what follows the condition
ConditionalRest(T, s) ==
    IF Token(T, s.pos) # <<"?">> THEN s
    ELSE IF Flag(s.flags, "optional_literals")
            /\ Token(T, s.pos + 1) \in
                   { <<"<">>, <<")">>, <<"]">>, <<"}">>, <<",">>, <<";">>, ENDMARKER }
    THEN parse_optional_literal_rest(T, Skip(s, 1), s.val)
    ELSE Then(parse_assignment(T, Skip(s, 1)), LAMBDA truepart :
         Then(require(T, truepart, << <<":">> >>), LAMBDA c :
         Then(parse_conditional(T, c), LAMBDA falsepart :
             Return(falsepart,
                    ConditionalExpression(s.val, truepart.val, falsepart.val)))))

\* lines 529-536: the condition, a lambda where one may stand
Condition(T, s) ==
    IF would_accept_lambda_name(T, s.pos) \/ Token(T, s.pos) = <<"(">>
    THEN Try("conditional", s, parse_lambda(T, s),
             LAMBDA h : parse_logic_or_expr(T, h))
    ELSE parse_logic_or_expr(T, s)

\* lines 528-544
parse_conditional(T, s) ==
    Then(Condition(T, s), LAMBDA result : ConditionalRest(T, result))

\* 'if self.would_accept(('++', '--')):' behind a postfix expression
PostIncrement(T, s) ==
    IF Token(T, s.pos) \in { <<"+","+">>, <<"-","-">> }
    THEN Ok(s, s.pos + 1, [node |-> "IncrementExpression", op |-> Str(Token(T, s.pos)),
                           prefix |-> FALSE, expr |-> s.val])
    ELSE s

\* parse_postfix() and the increment behind it: lines 591-595 and 612-617
PostfixAndIncrement(T, s) ==
    Then(parse_postfix(T, s), LAMBDA r : PostIncrement(T, r))

\* lines 586-608: the operand of a cast
CastOperand(T, s) ==
    IF Token(T, s.pos) = <<"(">> \/ would_accept_lambda_name(T, s.pos)
    THEN Try("cast_lambda", s, parse_lambda(T, s),
             LAMBDA h : PostfixAndIncrement(T, h))
    ELSE parse_cast(T, s)

\* lines 583-609: the body of the cast attempt
CastBody(T, s) ==
    LET typ == parse_cast_type(T, Skip(s, 1))
        c == require(T, typ, << <<")">> >>)
    IN  IF typ.err # NoError THEN typ
        ELSE IF c.err # NoError THEN c
        ELSE Then(CastOperand(T, c), LAMBDA expr :
                 Return(expr, [node |-> "CastExpression", type |-> typ.val,
                               expr |-> expr.val]))

\* lines 579-617
parse_cast(T, s) ==
    IF Token(T, s.pos) = <<"(">>
    THEN Try("cast", s, CastBody(T, s), LAMBDA h : PostfixAndIncrement(T, h))
    ELSE PostfixAndIncrement(T, s)

\* parse_dot_expr(object): '.' NAME
parse_dot_expr(T, s) ==
    IF IsName(Token(T, s.pos + 1))
    THEN Ok(s, s.pos + 2, MemberAccess(Str(Token(T, s.pos + 1)), s.val))
    ELSE Raise(s, JavaSyntaxError("expected", <<"N","A","M","E">>, s.pos + 1))

\* parse_ref_expr(object): '::' NAME
parse_ref_expr(T, s) ==
    IF IsName(Token(T, s.pos + 1))
    THEN Ok(s, s.pos + 2, [node |-> "MethodReference", name |-> Str(Token(T, s.pos + 1)),
                           object |-> s.val])
    ELSE Raise(s, JavaSyntaxError("expected", <<"N","A","M","E">>, s.pos + 1))

\* 'while True:' of parse_postfix, lines 621-637
PostfixRest(T, s) ==
    IF Token(T, s.pos) = <<".">>
    THEN Then(parse_dot_expr(T, s), LAMBDA r : PostfixRest(T, r))
    ELSE IF Token(T, s.pos) = <<"[">>
    THEN Then(parse_expr(T, Skip(s, 1)), LAMBDA index :
         Then(require(T, index, << <<"]">> >>), LAMBDA r :
             PostfixRest(T, Return(r, [node |-> "IndexExpression", indexed |-> s.val,
                                      index |-> index.val]))))
    ELSE IF Token(T, s.pos) = <<":",":">>
    THEN Then(parse_ref_expr(T, s), LAMBDA r : PostfixRest(T, r))
    ELSE IF Flag(s.flags, "optional_literals") /\ Token(T, s.pos) = <<"!">>
    THEN PostfixRest(T, Ok(s, s.pos + 1, FunctionCall("orElseThrow", s.val, <<>>, <<>>)))
    ELSE s

\* lines 619-637
parse_postfix(T, s) == Then(parse_primary(T, s), LAMBDA r : PostfixRest(T, r))

\* parse_primary() of the inherited parser
base_parse_primary(T, s) ==
    CASE Token(T, s.pos) = <<"(">> ->
             Then(parse_expr(T, Skip(s, 1)), LAMBDA e :
             Then(require(T, e, << <<")">> >>), LAMBDA r : Return(r, Parenthesis(e.val))))
      [] Token(T, s.pos) = <<"[">> -> parse_list_literal(T, s)
      [] Token(T, s.pos) = <<"{">> -> parse_map_literal(T, s)
      [] Token(T, s.pos) = <<"n","e","w">> ->
             Then(parse_type(T, Skip(s, 1)), LAMBDA typ :
                 parse_class_creator_rest(T, typ, typ.val, None))
      [] IsName(Token(T, s.pos)) ->
             Ok(s, s.pos + 1, NameExpr(Str(Token(T, s.pos))))
      [] IsNumber(Token(T, s.pos)) ->
             Ok(s, s.pos + 1, [node |-> "Literal", value |-> Str(Token(T, s.pos))])
      [] OTHER ->
             Raise(s, JavaSyntaxError("illegal start of expression",
                                      Token(T, s.pos), s.pos))

\* the empty optional '?' of lines 695-712
EmptyOptional(T, s) ==
    IF Token(T, s.pos) = <<"<">>
    THEN IF would_accept(T, s.pos + 1, << <<"i","n","t">>, <<">">> >>)
         THEN Ok(s, s.pos + 3, FunctionCall("empty",
                  make_member_access_from_dotted_name(<<"j","a","v","a",".","u","t","i","l",".","O","p","t","i","o","n","a","l","I","n","t">>), <<>>, <<>>))
         ELSE IF would_accept(T, s.pos + 1, << <<"d","o","u","b","l","e">>, <<">">> >>)
         THEN Ok(s, s.pos + 3, FunctionCall("empty",
                  make_member_access_from_dotted_name(<<"j","a","v","a",".","u","t","i","l",".","O","p","t","i","o","n","a","l","D","o","u","b","l","e">>), <<>>, <<>>))
         ELSE IF would_accept(T, s.pos + 1, << <<"l","o","n","g">>, <<">">> >>)
         THEN Ok(s, s.pos + 3, FunctionCall("empty",
                  make_member_access_from_dotted_name(<<"j","a","v","a",".","u","t","i","l",".","O","p","t","i","o","n","a","l","L","o","n","g">>), <<>>, <<>>))
         ELSE Then(IF Token(T, s.pos + 1) = <<"?">> THEN parse_type_arg(T, Skip(s, 1))
                   ELSE parse_type(T, Skip(s, 1)), LAMBDA typ :
              Then(require(T, typ, << <<">">> >>), LAMBDA r :
                  Return(r, FunctionCall("empty",
                      make_member_access_from_dotted_name(<<"j","a","v","a",".","u","t","i","l",".","O","p","t","i","o","n","a","l">>),
                      <<>>, << primitive_to_wrapper(typ.val) >>))))
    ELSE Return(s, FunctionCall("empty",
             make_member_access_from_dotted_name(<<"j","a","v","a",".","u","t","i","l",".","O","p","t","i","o","n","a","l">>), <<>>, <<>>))

\* lines 663-715; the streams hold no REGEX and no STRING token
parse_primary(T, s) ==
    IF Flag(s.flags, "optional_literals") /\ Token(T, s.pos) = <<"?">>
    THEN EmptyOptional(T, Skip(s, 1))
    ELSE base_parse_primary(T, s)

\* an argument whose production switches a feature off on the way
parse_arg_switching(T, s) ==
    parse_expr(T, [s EXCEPT !.flags = setattr(@, "argument_annotations_syntax", FALSE)])

\* lines 652-655
parse_arg(T, s) ==
    parse_expr(T, IF Flag(s.flags, "argument_annotations_syntax")
                     /\ IsName(Token(T, s.pos)) /\ Token(T, s.pos + 1) = <<":">>
                  THEN Skip(s, 2)
                  ELSE s)

\* the loop without the break behind a trailing comma
ArgsRest_unbroken(T, s, args) ==
    IF Token(T, s.pos) # <<",">> THEN Return(s, args)
    ELSE Then(parse_arg(T, Skip(s, 1)), LAMBDA a : ArgsRest(T, a, Append(args, a.val)))

\* 'while self.accept(','):' of parse_args, lines 644-647
ArgsRest(T, s, args) ==
    IF Token(T, s.pos) # <<",">> THEN Return(s, args)
    ELSE IF Flag(s.flags, "argument_trailing_commas") /\ Token(T, s.pos + 1) = <<")">>
    THEN Ok(s, s.pos + 1, args)
    ELSE Then(parse_arg(T, Skip(s, 1)), LAMBDA a : ArgsRest(T, a, Append(args, a.val)))

\* lines 639-650
parse_args(T, s) ==
    Then(require(T, s, << <<"(">> >>), LAMBDA open :
    Then(IF Token(T, open.pos) = <<")">> THEN Return(open, <<>>)
         ELSE Then(parse_arg(T, open), LAMBDA a : ArgsRest(T, a, << a.val >>)),
         LAMBDA args :
    Then(require(T, args, << <<")">> >>), LAMBDA r : Return(r, args.val))))

\* 'while self.accept(','): if self.would_accept(close): break;
\* elements.append(self.parse_expr())'
ElementsRest(T, s, elements, close) ==
    IF Token(T, s.pos) # <<",">> THEN Return(s, elements)
    ELSE IF Token(T, s.pos + 1) = close THEN Ok(s, s.pos + 1, elements)
    ELSE Then(parse_expr(T, Skip(s, 1)), LAMBDA e :
             ElementsRest(T, e, Append(elements, e.val), close))

\* lines 775-779
parse_map_entry(T, s) ==
    Then(parse_expr(T, s), LAMBDA key :
    Then(require(T, key, << <<":">> >>), LAMBDA c :
    Then(parse_expr(T, c), LAMBDA value : Return(value, << key.val, value.val >>))))

\* 'while self.accept(','): if self.would_accept(close): break;
\* entries.append(self.parse_map_entry())'
EntriesRest(T, s, entries, close) ==
    IF Token(T, s.pos) # <<",">> THEN Return(s, entries)
    ELSE IF Token(T, s.pos + 1) = close THEN Ok(s, s.pos + 1, entries)
    ELSE Then(parse_map_entry(T, Skip(s, 1)), LAMBDA e :
             EntriesRest(T, e, Append(entries, e.val), close))

\* lines 733-736
make_list_literal(elements) ==
    FunctionCall("of", make_member_access_from_dotted_name(<<"j","a","v","a",".","u","t","i","l",".","L","i","s","t">>),
                 elements, <<>>)

\* lines 791-794
make_set_literal(elements) ==
    FunctionCall("of", make_member_access_from_dotted_name(<<"j","a","v","a",".","u","t","i","l",".","S","e","t">>),
                 elements, <<>>)

\* 'for key, value in entries: args.append(key); args.append(value)'
KeysAndValues(entries) ==
    [i \in 1..2 * Len(entries) |-> entries[(i + 1) \div 2][2 - (i % 2)]]

\* the Map.entry(key, value) that replaces entries[i]
MapEntry(e) ==
    FunctionCall("entry", make_member_access_from_dotted_name(<<"j","a","v","a",".","u","t","i","l",".","M","a","p">>),
                 << e[1], e[2] >>, <<>>)

\* Map.of(k1, v1, ...) for any number of entries
make_map_literal_any(entries) ==
    FunctionCall("of", make_member_access_from_dotted_name(<<"j","a","v","a",".","u","t","i","l",".","M","a","p">>),
                 KeysAndValues(entries), <<>>)

\* lines 757-773
make_map_literal(entries) ==
    IF Len(entries) <= 10
    THEN FunctionCall("of", make_member_access_from_dotted_name(<<"j","a","v","a",".","u","t","i","l",".","M","a","p">>),
                      KeysAndValues(entries), <<>>)
    ELSE FunctionCall("ofEntries", make_member_access_from_dotted_name(<<"j","a","v","a",".","u","t","i","l",".","M","a","p">>),
                      [i \in 1..Len(entries) |-> MapEntry(entries[i])], <<>>)

\* parse_list_literal() of the inherited parser: '[' elements ']'
base_parse_list_literal(T, s) ==
    Then(require(T, s, << <<"[">> >>), LAMBDA open :
    Then(IF Token(T, open.pos) = <<"]">> THEN Return(open, <<>>)
         ELSE Then(parse_expr(T, open), LAMBDA e : ElementsRest(T, e, << e.val >>, None)),
         LAMBDA elements :
    Then(require(T, elements, << <<"]">> >>), LAMBDA r :
        Return(r, [node |-> "ListLiteral", elements |-> elements.val]))))

\* lines 717-731
parse_list_literal(T, s) ==
    IF ~Flag(s.flags, "collections_literals") THEN base_parse_list_literal(T, s)
    ELSE
    Then(require(T, s, << <<"[">> >>), LAMBDA open :
    Then(IF Token(T, open.pos) = <<"]">> THEN Return(open, <<>>)
         ELSE IF Token(T, open.pos) = <<",">> THEN Ok(open, open.pos + 1, <<>>)
         ELSE Then(parse_expr(T, open), LAMBDA e : ElementsRest(T, e, << e.val >>, <<"]">>)),
         LAMBDA elements :
    Then(require(T, elements, << <<"]">> >>), LAMBDA r :
        Return(r, make_list_literal(elements.val)))))

\* lines 781-789
parse_set_literal_rest(T, s, elem) ==
    Then(ElementsRest(T, s, << elem >>, <<"}">>), LAMBDA elements :
    Then(require(T, elements, << <<"}">> >>), LAMBDA r :
        Return(r, make_set_literal(elements.val))))

\* parse_map_literal() of the inherited parser: '{' entries '}'
base_parse_map_literal(T, s) ==
    Then(require(T, s, << <<"{">> >>), LAMBDA open :
    Then(IF Token(T, open.pos) = <<"}">> THEN Return(open, <<>>)
         ELSE Then(parse_map_entry(T, open), LAMBDA e :
                  EntriesRest(T, e, << e.val >>, None)),
         LAMBDA entries :
    Then(require(T, entries, << <<"}">> >>), LAMBDA r :
        Return(r, [node |-> "MapLiteral", entries |-> entries.val]))))

\* lines 738-755
parse_map_literal(T, s) ==
    IF ~Flag(s.flags, "collections_literals") THEN base_parse_map_literal(T, s)
    ELSE
    Then(require(T, s, << <<"{">> >>), LAMBDA open :
    IF Token(T, open.pos) = <<"}">>
    THEN Ok(open, open.pos + 1, make_map_literal(<<>>))
    ELSE IF Token(T, open.pos) = <<",">>
    THEN Then(require(T, Skip(open, 1), << <<"}">> >>), LAMBDA r :
             Return(r, make_map_literal(<<>>)))
    ELSE Then(parse_expr(T, open), LAMBDA key :
         IF Token(T, key.pos) # <<":">> THEN parse_set_literal_rest(T, key, key.val)
         ELSE Then(parse_expr(T, Skip(key, 1)), LAMBDA value :
              Then(EntriesRest(T, value, << << key.val, value.val >> >>, <<"]">>),
                   LAMBDA entries :
              Then(require(T, entries, << <<"}">> >>), LAMBDA r :
                  Return(r, make_map_literal(entries.val)))))))

\* parse_class_creator_rest() of the inherited parser: arguments and an
\* optional class body
base_parse_class_creator_rest(T, s, type, typeargs) ==
    Then(parse_args(T, s), LAMBDA args :
    Then(IF Token(T, args.pos) = <<"{">> THEN parse_class_body(T, args)
         ELSE Return(args, NoNode), LAMBDA members :
        Return(members, ClassCreator(type, args.val,
                   IF typeargs = None THEN <<>> ELSE typeargs, members.val))))

\* the rest of a class creator as the inherited grammar has it, whatever
\* the flags
parse_class_creator_rest_inherited(T, s, type, typeargs) ==
    base_parse_class_creator_rest(T, s, type, typeargs)

\* lines 802-820: the initializer in braces behind the type
CreatorLiteral(T, s) ==
    Then(parse_expr(T, s), LAMBDA expr :
    IF Token(T, expr.pos) = <<":">>
    THEN Then(parse_expr(T, Skip(expr, 1)), LAMBDA value :
         Then(EntriesRest(T, value, << << expr.val, value.val >> >>, <<"}">>),
              LAMBDA entries :
         Then(require(T, entries, << <<"}">> >>), LAMBDA r :
             Return(r, << make_map_literal(entries.val) >>))))
    ELSE Then(ElementsRest(T, expr, << expr.val >>, <<"}">>), LAMBDA elements :
         Then(require(T, elements, << <<"}">> >>), LAMBDA r :
             Return(r, << make_list_literal(elements.val) >>))))

\* lines 796-832
parse_class_creator_rest(T, s, type, typeargs) ==
    IF ~Flag(s.flags, "class_creator_expressions")
    THEN base_parse_class_creator_rest(T, s, type, typeargs)
    ELSE
    Then(IF Token(T, s.pos) = <<"{">>
         THEN Then(CreatorLiteral(T, Skip(s, 1)), LAMBDA args :
                  Return(args, [args |-> args.val, members |-> NoNode]))
         ELSE IF Token(T, s.pos) = <<"(">>
         THEN Then(parse_args(T, s), LAMBDA args :
              IF Token(T, args.pos) = <<"{">>
              THEN Then(parse_class_body(T, args), LAMBDA members :
                       Return(members, [args |-> args.val, members |-> members.val]))
              ELSE Return(args, [args |-> args.val, members |-> NoNode]))
         ELSE Return(s, [args |-> <<>>, members |-> NoNode]),
         LAMBDA r :
        Return(r, ClassCreator(type, r.val.args,
                      IF typeargs = None THEN <<>> ELSE typeargs, r.val.members)))

----------------------------------------------------------------------------
(* Statements: the print statements *)

\* a call that ignores the name it is given
make_print_statement_print(name, arg) ==
    [node |-> "ExpressionStatement",
     expr |-> FunctionCall("print",
                           make_member_access_from_dotted_name(<<"j","a","v","a",".","l","a","n","g",".","S","y","s","t","e","m",".","o","u","t">>),
                           IF arg = NoNode THEN <<>> ELSE << arg >>, <<>>)]

\* lines 413-414; arg is NoNode for 'arg=None'
make_print_statement(name, arg) ==
    [node |-> "ExpressionStatement",
     expr |-> FunctionCall(name,
                           make_member_access_from_dotted_name(<<"j","a","v","a",".","l","a","n","g",".","S","y","s","t","e","m",".","o","u","t">>),
                           IF arg = NoNode THEN <<>> ELSE << arg >>, <<>>)]

\* the arguments of a print statement, lines 347-355: the first one ("first"),
\* then 'while self.accept(','):' with its break when a ',' follows it
\* ("commas"), 'while not self.would_accept((';', ENDMARKER)):' when something
\* else than a ';' does ("words")
RECURSIVE PrintArgs(_, _, _, _)
PrintArgs(T, s, elements, loop) ==
    IF (loop = "commas" /\ Token(T, s.pos) # <<",">>)
       \/ (loop = "words" /\ Token(T, s.pos) \in { <<";">>, ENDMARKER })
    THEN Return(s, elements)
    ELSE IF loop = "commas" /\ Flag(s.flags, "other_trailing_commas")
            /\ Token(T, s.pos + 1) = <<";">>
    THEN Ok(s, s.pos + 1, elements)
    ELSE Then(parse_arg(T, IF loop = "commas" THEN Skip(s, 1) ELSE s), LAMBDA a :
             PrintArgs(T, a, Append(elements, a.val),
                       IF loop # "first" THEN loop
                       ELSE IF Token(T, a.pos) = <<",">> THEN "commas" ELSE "words"))

\* lines 342-411. The four branches collect their arguments alike (347-356,
\* 368-377, 387-396, 399-408) and differ in what they return;
\* super().parse_statement() is an empty statement or an expression statement
parse_statement(T, s) ==
    LET word == Token(T, s.pos)
        out == make_member_access_from_dotted_name(<<"j","a","v","a",".","l","a","n","g",".","S","y","s","t","e","m",".","o","u","t">>)
        space == [node |-> "Literal", value |-> "' '"]
        \* 'for i, arg in enumerate(elements):' of lines 360-363 and 381-384
        stmts(last, elements) ==
            ForRange(LAMBDA acc, i :
                         [acc EXCEPT !.stmts =
                             @ \o (IF i > 1 THEN << make_print_statement("print", space) >>
                                   ELSE <<>>)
                               \o << make_print_statement(
                                        IF i < Len(elements) THEN "print" ELSE last,
                                        elements[i]) >>],
                     [stmts |-> <<>>, stop |-> FALSE],
                     [i \in 1..Len(elements) |-> i], 1, Len(elements)).stmts
        printed(last, elements) ==
            IF Len(elements) = 1 THEN make_print_statement(last, elements[1])
            ELSE [node |-> "Block", stmts |-> stmts(last, elements)]
        formatted(elements) ==
            [node |-> "ExpressionStatement",
             expr |-> FunctionCall("printf", out, elements, <<>>)]
        newline(arg) ==
            [node |-> "BinaryExpression", lhs |-> arg, op |-> "+",
             rhs |-> [node |-> "Literal", value |-> "\"%n\""]]
        lowered(elements) ==
            CASE word = <<"p","r","i","n","t","l","n">> -> printed("println", elements)
              [] word = <<"p","r","i","n","t">> -> printed("print", elements)
              [] word = <<"p","r","i","n","t","f">> -> formatted(elements)
              [] OTHER -> formatted([elements EXCEPT ![1] = newline(@)])
    IN  IF Flag(s.flags, "print_statements")
           /\ word \in { <<"p","r","i","n","t","l","n">>, <<"p","r","i","n","t">>, <<"p","r","i","n","t","f">>, <<"p","r","i","n","t","f","l","n">> }
        THEN IF word \in { <<"p","r","i","n","t","l","n">>, <<"p","r","i","n","t">> } /\ Token(T, s.pos + 1) = <<";">>
             THEN Ok(s, s.pos + 2, IF word = <<"p","r","i","n","t","l","n">>
                                   THEN make_print_statement("println", NoNode)
                                   ELSE [node |-> "EmptyStatement"])
             ELSE Then(PrintArgs(T, Skip(s, 1), <<>>, "first"), LAMBDA elements :
                  Then(require(T, elements, << <<";">> >>), LAMBDA r :
                      Return(r, lowered(elements.val))))
        ELSE IF word = <<";">> THEN Ok(s, s.pos + 1, [node |-> "EmptyStatement"])
        ELSE Then(parse_expr(T, s), LAMBDA e :
             Then(require(T, e, << <<";">> >>), LAMBDA r :
                 Return(r, [node |-> "ExpressionStatement", expr |-> e.val])))

----------------------------------------------------------------------------
(* The caller's side: a parser is constructed and configured *)

\* the names a caller passes to enable_feature
FeatureArgs ==
    supported_features \cup
    { <<"*">>,
      <<"s","t","a","t","e","m","e","n","t","s",".","*">>, <<"e","x","p","r","e","s","s","i","o","n","s",".","*">>, <<"l","i","t","e","r","a","l","s",".","*">>,
      <<"t","r","a","i","l","i","n","g","_","c","o","m","m","a","s",".","*">>, <<"s","y","n","t","a","x",".","*">>, <<"a","u","t","o","_","i","m","p","o","r","t","s",".","*">>,
      <<"s",".","*">>, <<"l","i","t",".","*">>, <<".","*">>, <<"s","y","n","t","a","x",".","m","u","l","t","i","p","l","e","_","i","m","p","o","r","t","_","s","e","c","t","i","o","n","s",".","*">>,
      <<"f","o","o",".","*">>, <<"l","i","t","e","r","a","l","s",".","x",".","*">>,
      <<"f","o","o">>, <<"l","i","t","e","r","a","l","s">>, <<"l","i","t","e","r","a","l","s","*">>, <<"s","t","a","t","e","m","e","n","t","s",".","p","r","i","n">>,
      <<"p","r","i","n","t","_","s","t","a","t","e","m","e","n","t","s">>, <<>> }

Init ==
    /\ flags = InitFlags
    /\ prev_flags = InitFlags
    /\ calls = <<>>
    /\ error = NoError
    /\ pc = "ready"
    /\ tokens = <<>>
    /\ pos = 1
    /\ imports = <<>>
    /\ explicit = <<>>
    /\ injected = 0
    /\ order = 0
    /\ log = <<>>
    /\ entry = ""
    /\ tree = NoNode
    /\ attempts = <<>>
    /\ argv = [parse |-> "", enable |-> <<>>, disable |-> <<>>]

\* parser.enable_feature(feature, enabled), called from outside the parser
EnableFeature(feature, enabled) ==
    /\ pc = "ready"
    /\ Len(calls) < MaxCalls
    /\ LET r == enable_feature(flags, feature, enabled)
       IN  /\ flags' = r.flags
           /\ error' = r.error
    /\ prev_flags' = flags
    /\ calls' = Append(calls, Call(feature, enabled))
    /\ UNCHANGED <<pc, tokens, pos, imports, explicit, injected, order, log,
                   entry, tree, attempts, argv>>

Next ==
    \E feature \in FeatureArgs, enabled \in BOOLEAN : EnableFeature(feature, enabled)

Spec == Init /\ [][Next]_vars

----------------------------------------------------------------------------
(* Properties of enable_feature, checked under Spec *)

LastCall == calls[Len(calls)]

\* the text of a name 'ns.*' in front of its '.*'
PrefixOf(feature) == SubSeq(feature, 1, Len(feature) - 2)

\* C1: for every prefix ns and boolean on, a successful
\* enable_feature("ns.*", on) sets to on every registered feature whose name
\* starts with "ns." and leaves the flag of every other registered feature
\* as it was.
C1_NamespaceSetsOnlyItsFeatures ==
    (/\ calls # <<>>
     /\ endswith(LastCall.feature, <<".","*">>)
     /\ error = NoError)
    => \A f \in supported_features :
           Enabled(flags, f) =
               IF startswith(f, PrefixOf(LastCall.feature) \o <<".">>)
               THEN LastCall.enabled
               ELSE Enabled(prev_flags, f)

\* C8: enable_feature fails with an "unsupported category" error carrying the
\* prefix when the name ends in ".*" and no registered feature starts with
\* the prefix, and with an "unsupported feature" error carrying the full name
\* when the name is neither "*", nor registered, nor of the form "ns.*"; a
\* failed call changes no flag.
C8_UnknownNamesFail ==
    calls # <<>> =>
        LET name == LastCall.feature
            known == name = <<"*">> \/ name \in supported_features
        IN  /\ (/\ ~known
                /\ endswith(name, <<".","*">>)
                /\ ~\E f \in supported_features : startswith(f, PrefixOf(name)))
               => (/\ error = ValueError("unsupported category", PrefixOf(name))
                   /\ flags = prev_flags)
            /\ (~known /\ ~endswith(name, <<".","*">>))
               => (/\ error = ValueError("unsupported feature", name)
                   /\ flags = prev_flags)
            /\ error # NoError => flags = prev_flags

\* C8 witness: an unknown category and then an unknown feature were refused
C8_Witness ==
    /\ Len(calls) = 2
    /\ calls[1].feature = <<"f","o","o",".","*">>
    /\ calls[2].feature = <<"s","t","a","t","e","m","e","n","t","s",".","p","r","i","n">>
    /\ error = ValueError("unsupported feature", <<"s","t","a","t","e","m","e","n","t","s",".","p","r","i","n">>)
    /\ flags = InitFlags

\* the features __init__ leaves disabled
OffByDefault == {f \in supported_features : ~Enabled(InitFlags, f)}

\* C10: on a fresh parser, enable_feature("*") followed by disabling exactly
\* the features that are off by default gives the default flags again; and
\* enable_feature("*", on) called twice in a row leaves what one call leaves.
C10_WildcardToggling ==
    /\ (/\ Len(calls) = 1 + Cardinality(OffByDefault)
        /\ calls[1] = Call(<<"*">>, TRUE)
        /\ {calls[i] : i \in 2..Len(calls)} = {Call(f, FALSE) : f \in OffByDefault})
       => flags = InitFlags
    /\ (/\ Len(calls) >= 2
        /\ LastCall.feature = <<"*">>
        /\ calls[Len(calls) - 1] = LastCall)
       => flags = prev_flags

\* C10 witness: everything was enabled (which changed a flag) and the one
\* feature that is off by default was disabled again
C10_Witness ==
    /\ calls = << Call(<<"*">>, TRUE), Call(<<"t","r","a","i","l","i","n","g","_","c","o","m","m","a","s",".","o","t","h","e","r">>, FALSE) >>
    /\ Enabled(prev_flags, <<"t","r","a","i","l","i","n","g","_","c","o","m","m","a","s",".","o","t","h","e","r">>)
    /\ flags = InitFlags

\* the calls so far name only registered features or "*"
ExactOrStar ==
    \A i \in 1..Len(calls) :
        calls[i].feature = <<"*">> \/ calls[i].feature \in supported_features

\* the calls that name the feature f or "*"
Naming(f) == {i \in 1..Len(calls) : calls[i].feature \in {f, <<"*">>}}

\* C11: after a sequence of enable_feature calls whose names are registered
\* names or "*", every call has succeeded and each feature's flag is the
\* value of the last call that named the feature or "*", or the value of
\* construction if no call did; a call with a registered name changes that
\* feature alone, and a call repeated with the same arguments changes nothing.
C11_LaterCallsWin ==
    (calls # <<>> /\ ExactOrStar) =>
        /\ error = NoError
        /\ \A f \in supported_features :
               Enabled(flags, f) =
                   IF Naming(f) = {} THEN Enabled(InitFlags, f)
                   ELSE calls[CHOOSE i \in Naming(f) : \A j \in Naming(f) : j <= i].enabled
        /\ LastCall.feature \in supported_features =>
               \A g \in supported_features \ {LastCall.feature} :
                   Enabled(flags, g) = Enabled(prev_flags, g)
        /\ (Len(calls) >= 2 /\ calls[Len(calls) - 1] = LastCall) => flags = prev_flags

\* C11 witness: everything was disabled, then one feature enabled by name
C11_Witness ==
    /\ calls = << Call(<<"*">>, FALSE), Call(<<"s","t","a","t","e","m","e","n","t","s",".","p","r","i","n","t">>, TRUE) >>
    /\ error = NoError
    /\ \A f \in supported_features : Enabled(flags, f) = (f = <<"s","t","a","t","e","m","e","n","t","s",".","p","r","i","n","t">>)

\* C23: each registered feature name maps to a flag slot of its own, derived
\* from the name alone: the mapping is injective over the registered names,
\* the slots it produces are exactly the flags __init__ initialises and the
\* parser reads, and no sequence of enable_feature calls creates a slot
\* outside that set.
C23_SlotsOfRegisteredNames ==
    LET slots == {feature_name_to_attr(f) : f \in supported_features}
    IN  /\ \A f, g \in supported_features :
               feature_name_to_attr(f) = feature_name_to_attr(g) => f = g
        /\ slots = DOMAIN InitFlags
        /\ DOMAIN FlagAttr = supported_features
        /\ \A f \in supported_features : FlagAttr[f] = feature_name_to_attr(f)
        /\ DOMAIN flags = slots

\* two calls have succeeded and changed flags, and the slots are those of
\* __init__
C23_Witness ==
    /\ Len(calls) >= 2
    /\ error = NoError
    /\ flags # InitFlags /\ prev_flags # flags
    /\ DOMAIN flags = DOMAIN InitFlags

----------------------------------------------------------------------------
(* The import section of a compilation unit *)

\* how many forms (declarations, directives, bare ';') an import section holds
MaxForms == 2

\* the explicit import forms
ImportForms ==
    { << <<"i","m","p","o","r","t">>, <<"j","a","v","a">>, <<".">>, <<"u","t","i","l">>, <<".">>, <<"*">>, <<";">> >>,
      << <<"i","m","p","o","r","t">>, <<"j","a","v","a">>, <<".">>, <<"u","t","i","l">>, <<".">>, <<"L","i","s","t">>, <<";">> >>,
      << <<"i","m","p","o","r","t">>, <<"j","a","v","a">>, <<".">>, <<"a","w","t">>, <<".">>, <<"L","i","s","t">>, <<";">> >>,
      << <<"i","m","p","o","r","t">>, <<"s","t","a","t","i","c">>, <<"j","a","v","a">>, <<".">>, <<"l","a","n","g">>, <<".">>, <<"I","n","t","e","g","e","r">>, <<".">>, <<"*">>, <<";">> >>,
      << <<"i","m","p","o","r","t">>, <<"s","t","a","t","i","c">>, <<"j","a","v","a">>, <<".">>, <<"l","a","n","g">>, <<".">>, <<"I","n","t","e","g","e","r">>, <<".">>, <<"p","a","r","s","e","I","n","t">>, <<";">> >>,
      << <<"i","m","p","o","r","t">>, <<"s","t","a","t","i","c">>, <<"c","o","m">>, <<".">>, <<"e","x","a","m","p","l","e">>, <<".">>, <<"U","t","i","l">>, <<".">>, <<"j","o","i","n">>, <<";">> >>,
      << <<"i","m","p","o","r","t">>, <<"j","a","v","a">>, <<".">>, <<"l","a","n","g">>, <<".">>, <<"I","n","t","e","g","e","r">>, <<".">>, <<"p","a","r","s","e","I","n","t">>, <<",">>, <<"j","a","v","a">>, <<".">>, <<"l","a","n","g">>, <<".">>, <<"S","t","r","i","n","g">>, <<".">>, <<"*">>, <<";">> >>,
      << <<"i","m","p","o","r","t">>, <<"s","t","a","t","i","c">>, <<"j","a","v","a">>, <<".">>, <<"u","t","i","l">>, <<".">>, <<"*">>, <<",">>, <<"j","a","v","a">>, <<".">>, <<"u","t","i","l">>, <<".">>, <<"M","a","p">>, <<";">> >>,
      << <<"i","m","p","o","r","t">>, <<"j","a","v","a">>, <<".">>, <<"u","t","i","l">>, <<".">>, <<"f","u","n","c","t","i","o","n">>, <<".">>, <<"*">>, <<";">> >>,
      << <<"i","m","p","o","r","t">>, <<"c","o","m">>, <<".">>, <<"e","x","a","m","p","l","e">>, <<".">>, <<"Z","e","d">>, <<",">>, <<"c","o","m">>, <<".">>, <<"e","x","a","m","p","l","e">>, <<".">>, <<"F","o","o">>, <<";">> >>,
      << <<"f","r","o","m">>, <<"j","a","v","a">>, <<".">>, <<"u","t","i","l">>, <<"i","m","p","o","r","t">>, <<"M","a","p">>, <<",">>, <<"S","e","t">>, <<";">> >>,
      << <<"f","r","o","m">>, <<"j","a","v","a">>, <<".">>, <<"i","o">>, <<"i","m","p","o","r","t">>, <<"*">>, <<";">> >>,
      << <<"i","m","p","o","r","t">>, <<"j","a","v","a">>, <<".">>, <<"u","t","i","l">>, <<".">>, <<"L","i","s","t">>, <<",">>, <<";">> >>,
      << <<";">> >> }

\* the feature directives, in their three forms
DirectiveForms ==
    { << <<"u","n","i","m","p","o","r","t">>, <<"j","a","v","a">>, <<"+","+">>, <<".">>, <<"a","u","t","o","_","i","m","p","o","r","t","s">>, <<".">>, <<"t","y","p","e","s">>, <<";">> >>,
      << <<"u","n","i","m","p","o","r","t">>, <<"j","a","v","a">>, <<"+","+">>, <<".">>, <<"a","u","t","o","_","i","m","p","o","r","t","s">>, <<".">>, <<"s","t","a","t","i","c","s">>, <<";">> >>,
      << <<"u","n","i","m","p","o","r","t">>, <<"j","a","v","a">>, <<"+","+">>, <<".">>, <<"a","u","t","o","_","i","m","p","o","r","t","s">>, <<".">>, <<"*">>, <<";">> >>,
      << <<"i","m","p","o","r","t">>, <<"j","a","v","a">>, <<"+","+">>, <<".">>, <<"a","u","t","o","_","i","m","p","o","r","t","s">>, <<".">>, <<"*">>, <<";">> >>,
      << <<"u","n","i","m","p","o","r","t">>, <<"j","a","v","a">>, <<"+","+">>, <<".">>, <<"*">>, <<";">> >>,
      << <<"f","r","o","m">>, <<"j","a","v","a">>, <<"+","+">>, <<"u","n","i","m","p","o","r","t">>, <<"a","u","t","o","_","i","m","p","o","r","t","s">>, <<".">>, <<"t","y","p","e","s">>, <<";">> >>,
      << <<"f","r","o","m">>, <<"j","a","v","a">>, <<"+","+">>, <<"u","n","i","m","p","o","r","t">>, <<"a","u","t","o","_","i","m","p","o","r","t","s">>, <<".">>, <<"*">>, <<";">> >>,
      << <<"f","r","o","m">>, <<"j","a","v","a">>, <<"+","+">>, <<"i","m","p","o","r","t">>, <<"*">>, <<";">> >>,
      << <<"i","m","p","o","r","t">>, <<"j","a","v","a">>, <<"+","+">>, <<".">>, <<"t","r","a","i","l","i","n","g","_","c","o","m","m","a","s">>, <<".">>, <<"*">>, <<";">> >>,
      << <<"f","r","o","m">>, <<"j","a","v","a">>, <<"+","+">>, <<"i","m","p","o","r","t">>, <<"t","r","a","i","l","i","n","g","_","c","o","m","m","a","s">>, <<".">>, <<"*">>, <<";">> >>,
      << <<"i","m","p","o","r","t">>, <<"j","a","v","a">>, <<"+","+">>, <<".">>, <<"t","r","a","i","l","i","n","g","_","c","o","m","m","a","s">>, <<".">>, <<"o","t","h","e","r">>, <<",">>, <<"j","a","v","a">>, <<".">>, <<"u","t","i","l">>, <<".">>, <<"M","a","p">>, <<",">>, <<";">> >>,
      << <<"i","m","p","o","r","t">>, <<"j","a","v","a">>, <<"+","+">>, <<".">>, <<"f","o","o">>, <<";">> >>,
      << <<"u","n","i","m","p","o","r","t">>, <<"j","a","v","a">>, <<"+","+">>, <<".">>, <<"f","o","o">>, <<".">>, <<"*">>, <<";">> >>,
      << <<"f","r","o","m">>, <<"j","a","v","a">>, <<"+","+">>, <<"i","m","p","o","r","t">>, <<"s","t","a","t","e","m","e","n","t","s">>, <<".">>, <<"p","r","i","n","t">>, <<",">>, <<"f","o","o">>, <<";">> >>,
      << <<"f","r","o","m">>, <<"j","a","v","a">>, <<"+","+">>, <<"u","n","i","m","p","o","r","t">>, <<"f","o","o">>, <<".">>, <<"*">>, <<";">> >> }

Forms == ImportForms \cup DirectiveForms

\* the token after the section: the first type declaration
Rest == << <<"c","l","a","s","s">> >>

RECURSIVE Flatten(_)
Flatten(forms) ==
    IF Len(forms) = 0 THEN <<>> ELSE forms[1] \o Flatten(Tail(forms))

\* the token streams: an import section of at most MaxForms forms, then Rest
Sources ==
    {Flatten(forms) \o Rest :
        forms \in UNION {[1..n -> Forms] : n \in 0..MaxForms}}

\* JavaPlusPlusParser(tokens): a parser constructed on the tokens of a source
InitImports ==
    /\ flags = InitFlags
    /\ prev_flags = InitFlags
    /\ calls = <<>>
    /\ error = NoError
    /\ pc = "ready"
    /\ tokens \in Sources
    /\ pos = 1
    /\ imports = <<>>
    /\ explicit = <<>>
    /\ injected = 0
    /\ order = 0
    /\ log = <<>>
    /\ entry = ""
    /\ tree = NoNode
    /\ attempts = <<>>
    /\ argv = [parse |-> "", enable |-> <<>>, disable |-> <<>>]

\* parse_import_section() at the head of the compilation unit, the tables
\* iterated in their k-th order
ParseImportSection(k) ==
    /\ pc = "ready"
    /\ \E r \in {parse_import_section(tokens, pos, flags, k)} :
           /\ pc' = IF r.err = NoError THEN "parsed" ELSE "failed"
           /\ flags' = r.flags
           /\ log' = r.log
           /\ error' = r.err
           /\ pos' = r.pos
           /\ imports' = r.imports
           /\ explicit' = r.explicit
           /\ injected' = r.auto_import_index
    /\ order' = k
    /\ UNCHANGED <<prev_flags, calls, tokens, entry, tree, attempts, argv>>

NextImports ==
    \E k \in IterOrders : ParseImportSection(k)

SpecImports == InitImports /\ [][NextImports]_vars


----------------------------------------------------------------------------
(* Properties of parse_import_section, checked under SpecImports *)

\* the simple name an import ends in
LastPart(imp) == imp.name.parts[Len(imp.name.parts)]

\* the names of the injected records that are single-type imports
InjectedTypes ==
    {imports[i].name.str : i \in {j \in 1..injected :
                                     ~imports[j].static /\ ~imports[j].wildcard}}

\* the names of the injected records that are static single-member imports
InjectedMembers ==
    {imports[i].name.str : i \in {j \in 1..injected :
                                     imports[j].static /\ ~imports[j].wildcard}}

\* the explicit imports without 'static'
ExplicitPlain == {explicit[i] : i \in {j \in 1..Len(explicit) : ~explicit[j].static}}

\* the explicit imports with 'static'
ExplicitStatic == {explicit[i] : i \in {j \in 1..Len(explicit) : explicit[j].static}}

\* the package.Type entries of the table of types
TypeEntries ==
    UNION {{[package |-> auto_imports[j].package, typ |-> auto_imports[j].types[i]] :
               i \in 1..Len(auto_imports[j].types)} : j \in 1..Len(auto_imports)}

\* the package.Type.member entries of the table of static members
MemberEntries ==
    UNION {UNION {{[owner |-> static_imports[j].package \o <<".">>
                                  \o static_imports[j].types[t].typename,
                    member |-> static_imports[j].types[t].members[i]] :
                       i \in 1..Len(static_imports[j].types[t].members)} :
                     t \in 1..Len(static_imports[j].types)} :
              j \in 1..Len(static_imports)}

\* C2 as stated: with auto_imports.types enabled, package.Type is injected
\* if and only if the explicit imports hold neither a non-static import of
\* exactly package.Type nor a non-static wildcard import of the package.
C2_TypeInjectedUnlessSameImport ==
    (pc = "parsed" /\ Flag(flags, "types_auto_imports")) =>
        \E block \in {InjectedTypes}, plain \in {ExplicitPlain} :
            \A e \in TypeEntries :
                (e.package \o <<".">> \o e.typ \in block)
                <=> ~\E i \in plain :
                        \/ ~i.wildcard /\ i.name.str = e.package \o <<".">> \o e.typ
                        \/ i.wildcard /\ i.name.str = e.package

\* C2: with auto_imports.types enabled, package.Type is injected if and only
\* if the explicit imports hold neither a non-static single-type import whose
\* simple type name is Type, of whatever package, nor a non-static wildcard
\* import of the package.
C2_TypeInjectedUnlessNamedOrCovered ==
    (pc = "parsed" /\ Flag(flags, "types_auto_imports")) =>
        \E block \in {InjectedTypes}, plain \in {ExplicitPlain} :
            \A e \in TypeEntries :
                (e.package \o <<".">> \o e.typ \in block)
                <=> ~\E i \in plain :
                        \/ ~i.wildcard /\ LastPart(i) = e.typ
                        \/ i.wildcard /\ i.name.str = e.package

\* C2 witness: 'import java.awt.List;' alone kept java.util.List from being
\* injected, and java.util.Map was injected
C2_Witness ==
    /\ pc = "parsed"
    /\ Flag(flags, "types_auto_imports")
    /\ explicit = << Import(Name(<<"j","a","v","a",".","a","w","t",".","L","i","s","t">>), FALSE, FALSE) >>
    /\ <<"j","a","v","a",".","u","t","i","l",".","L","i","s","t">> \notin InjectedTypes
    /\ <<"j","a","v","a",".","u","t","i","l",".","M","a","p">> \in InjectedTypes

\* C3 as stated: with auto_imports.statics enabled, package.Type.member is
\* injected if and only if the explicit imports hold neither a static import
\* of exactly package.Type.member nor a static wildcard import of
\* package.Type; imports without 'static' do not count.
C3_MemberInjectedUnlessSameImport ==
    (pc = "parsed" /\ Flag(flags, "statics_auto_imports")) =>
        \E block \in {InjectedMembers}, statics \in {ExplicitStatic} :
            \A e \in MemberEntries :
                (e.owner \o <<".">> \o e.member \in block)
                <=> ~\E i \in statics :
                        \/ ~i.wildcard /\ i.name.str = e.owner \o <<".">> \o e.member
                        \/ i.wildcard /\ i.name.str = e.owner

\* C3: with auto_imports.statics enabled, package.Type.member is injected if
\* and only if the explicit imports hold neither a static single-member
\* import whose simple member name is member, of whatever type, nor a static
\* wildcard import of package.Type; imports without 'static' do not count.
C3_MemberInjectedUnlessNamedOrCovered ==
    (pc = "parsed" /\ Flag(flags, "statics_auto_imports")) =>
        \E block \in {InjectedMembers}, statics \in {ExplicitStatic} :
            \A e \in MemberEntries :
                (e.owner \o <<".">> \o e.member \in block)
                <=> ~\E i \in statics :
                        \/ ~i.wildcard /\ LastPart(i) = e.member
                        \/ i.wildcard /\ i.name.str = e.owner

\* C3 witness: the non-static 'import java.lang.Integer.parseInt' and
\* 'java.lang.String.*' suppressed nothing, while
\* 'import static com.example.Util.join;' kept java.lang.String.join out
C3_Witness ==
    /\ pc = "parsed"
    /\ Flag(flags, "statics_auto_imports")
    /\ Import(Name(<<"j","a","v","a",".","l","a","n","g",".","I","n","t","e","g","e","r",".","p","a","r","s","e","I","n","t">>), FALSE, FALSE) \in ExplicitPlain
    /\ Import(Name(<<"j","a","v","a",".","l","a","n","g",".","S","t","r","i","n","g">>), FALSE, TRUE) \in ExplicitPlain
    /\ Import(Name(<<"c","o","m",".","e","x","a","m","p","l","e",".","U","t","i","l",".","j","o","i","n">>), TRUE, FALSE) \in ExplicitStatic
    /\ <<"j","a","v","a",".","l","a","n","g",".","I","n","t","e","g","e","r",".","p","a","r","s","e","I","n","t">> \in InjectedMembers
    /\ <<"j","a","v","a",".","l","a","n","g",".","S","t","r","i","n","g",".","f","o","r","m","a","t">> \in InjectedMembers
    /\ <<"j","a","v","a",".","l","a","n","g",".","S","t","r","i","n","g",".","j","o","i","n">> \notin InjectedMembers

\* a does not belong behind b: static before non-static, then wildcard
\* before specific, then the names in lexicographic order
NotBehind(a, b) ==
    \/ a.static /\ ~b.static
    \/ /\ a.static = b.static
       /\ \/ a.wildcard /\ ~b.wildcard
          \/ /\ a.wildcard = b.wildcard
             /\ StrCmp(a.name.str, b.name.str) <= 0

\* C4: the returned list is the injected records followed by the explicit
\* records: the injected block is in the order static before non-static, then
\* wildcard before specific, then lexicographic by name, and the explicit
\* records follow in their source order, none moved, dropped or reordered.
C4_InjectedSortedThenExplicit ==
    pc = "parsed" =>
        /\ Len(imports) = injected + Len(explicit)
        /\ SubSeq(imports, injected + 1, Len(imports)) = explicit
        /\ \A i \in 1..(injected - 1) : NotBehind(imports[i], imports[i + 1])

\* C4 witness: two explicit imports, written in descending order, stand in
\* that order behind a block that begins with a static import and ends with
\* a non-static one
C4_Witness ==
    /\ pc = "parsed"
    /\ explicit = << Import(Name(<<"c","o","m",".","e","x","a","m","p","l","e",".","Z","e","d">>), FALSE, FALSE),
                     Import(Name(<<"c","o","m",".","e","x","a","m","p","l","e",".","F","o","o">>), FALSE, FALSE) >>
    /\ injected > 2
    /\ imports[1].static
    /\ ~imports[injected].static
    /\ imports[injected + 1] = explicit[1]
    /\ imports[injected + 2] = explicit[2]

\* the group an injected record is rendered in
Group(imp) ==
    IF imp.static THEN (IF imp.wildcard THEN 1 ELSE 2)
    ELSE (IF imp.wildcard THEN 3 ELSE 4)

\* C5: for the same explicit imports and flags, the returned list does not
\* depend on the order in which the tables are iterated, and its injected
\* block reads static wildcard, static specific, non-static wildcard,
\* non-static specific, each group in lexicographic order.
C5_IterationOrderIndependent ==
    pc = "parsed" =>
        /\ order # 0 => imports = AutoImport(explicit, flags, 0).imports
        /\ \A i \in 1..(injected - 1) :
               \/ Group(imports[i]) < Group(imports[i + 1])
               \/ /\ Group(imports[i]) = Group(imports[i + 1])
                  /\ StrCmp(imports[i].name.str, imports[i + 1].name.str) < 0

\* C5 witness: the tables were iterated in another order than written, and
\* records of three groups were injected
C5_Witness ==
    /\ pc = "parsed"
    /\ order # 0
    /\ injected > 2
    /\ \E i, j, l \in 1..injected :
           Group(imports[i]) = 2 /\ Group(imports[j]) = 3 /\ Group(imports[l]) = 4

\* C6: a directive that names an unknown feature or category, in any of the
\* three forms, is reported as a JavaSyntaxError that carries the position of
\* a token, and as no other kind of error.
C6_UnknownNameIsSyntaxError ==
    (pc = "failed" /\ error.what \in {"unsupported feature", "unsupported category"})
        => (error.kind = "JavaSyntaxError" /\ error.at \in 1..Len(tokens))

\* the section that is the one directive 'from java++ import|unimport ns.*;'
FromWildcard(ns, on) ==
    << <<"f","r","o","m">>, <<"j","a","v","a">>, <<"+","+">>, IF on THEN <<"i","m","p","o","r","t">> ELSE <<"u","n","i","m","p","o","r","t">>,
       ns, <<".">>, <<"*">>, <<";">> >> \o Rest

\* the registered namespaces the sections name
Namespaces == { <<"t","r","a","i","l","i","n","g","_","c","o","m","m","a","s">>, <<"a","u","t","o","_","i","m","p","o","r","t","s">> }

\* C7: 'from java++ import ns.*' (resp. unimport) for a registered namespace
\* ns sets every feature of ns to enabled (resp. disabled) and no other, as
\* 'import java++.ns.*' (resp. 'unimport java++.ns.*') does.
C7_FromFormTogglesNamespace ==
    \A ns \in Namespaces, on \in BOOLEAN :
        (pc # "ready" /\ tokens = FromWildcard(ns, on)) =>
            /\ pc = "parsed"
            /\ flags = enable_feature(InitFlags, ns \o <<".","*">>, on).flags
            /\ \A f \in supported_features :
                   Enabled(flags, f) = IF startswith(f, ns \o <<".">>) THEN on
                                       ELSE Enabled(InitFlags, f)

\* the flags after the enable_feature calls log[i..] made one after the other
RECURSIVE Replay(_, _, _)
Replay(obj, calllog, i) ==
    IF i > Len(calllog) THEN obj
    ELSE Replay(enable_feature(obj, calllog[i].feature, calllog[i].enabled).flags,
                calllog, i + 1)

\* C9 as stated: a freshly constructed parser has every registered feature
\* enabled.
C9_FreshParserAllEnabled ==
    pc = "ready" => \A f \in supported_features : Enabled(flags, f)

\* C9: a freshly constructed parser has every registered feature enabled
\* except trailing_commas.other, which is disabled; afterwards the flags are
\* those the enable_feature calls made since construction have left.
C9_DefaultsAndOnlyEnableFeature ==
    /\ pc = "ready" =>
           \A f \in supported_features :
               Enabled(flags, f) = (f # <<"t","r","a","i","l","i","n","g","_","c","o","m","m","a","s",".","o","t","h","e","r">>)
    /\ pc # "ready" =>
           flags = Replay([attr \in DOMAIN flags |-> attr # "other_trailing_commas"],
                          log, 1)

\* C9 witness: a section was parsed whose directives changed a flag
C9_Witness ==
    /\ pc = "parsed"
    /\ Len(log) = 2
    /\ ~Enabled(flags, <<"a","u","t","o","_","i","m","p","o","r","t","s",".","t","y","p","e","s">>)
    /\ Enabled(flags, <<"t","r","a","i","l","i","n","g","_","c","o","m","m","a","s",".","o","t","h","e","r">>)

\* C12: the directives of a section take effect as they are read, and each
\* injection pass runs if and only if its feature is enabled once the section
\* has been read: records without 'static' are injected if and only if
\* auto_imports.types is enabled after the last directive, static records if
\* and only if auto_imports.statics is; a disabled pass injects none.
C12_PassesFollowFinalFlags ==
    pc = "parsed" =>
        \E final \in {Replay(InitFlags, log, 1)} :
            /\ Enabled(final, <<"a","u","t","o","_","i","m","p","o","r","t","s",".","t","y","p","e","s">>)
                   <=> \E i \in 1..injected : ~imports[i].static
            /\ Enabled(final, <<"a","u","t","o","_","i","m","p","o","r","t","s",".","s","t","a","t","i","c","s">>)
                   <=> \E i \in 1..injected : imports[i].static

\* C12 witness: the type pass was disabled and enabled again by a later
\* directive of the section, and both passes ran
C12_Witness ==
    /\ pc = "parsed"
    /\ log = << Call(<<"a","u","t","o","_","i","m","p","o","r","t","s",".","t","y","p","e","s">>, FALSE), Call(<<"a","u","t","o","_","i","m","p","o","r","t","s",".","*">>, TRUE) >>
    /\ InjectedTypes # {}
    /\ InjectedMembers # {}

----------------------------------------------------------------------------
(* The expressions of a compilation unit *)

MaxDepth == 1
MaxNest == 3
MaxEntries == 11

\* expressions that stand alone
Atoms ==
    { << <<"x">> >>, << <<"1">> >>, << <<"(">>, <<"a">>, <<")">>, <<"x">> >>, << <<"(">>, <<"i","n","t">>, <<")">>, <<"x">> >>, << <<"(">>, <<"l","o","n","g">>, <<")">>, <<"x">> >>, << <<"(">>, <<"d","o","u","b","l","e">>, <<")">>, <<"x">> >>,
      << <<"(">>, <<"f","l","o","a","t">>, <<")">>, <<"x">> >>, << <<"x">>, <<"-",">">>, <<"y">> >>, << <<"(">>, <<"x">>, <<")">>, <<"-",">">>, <<"y">> >>, << <<"(">>, <<"a">>, <<")">>, <<"(">>, <<"b">>, <<"]">> >>,
      << <<"(">>, <<"a">>, <<")">>, <<"(">>, <<"b">>, <<")">>, <<"-",">">>, <<"c">> >>, << <<"(">>, <<"a">>, <<")">>, <<"(">>, <<"b">>, <<")">>, <<"+","+">> >>, << <<"(">>, <<"a">>, <<")">>, <<"x">>, <<"+","+">> >>, << <<"?">> >>, << <<"x">>, <<"!">> >>,
      << <<"x">>, <<".">>, <<"f">> >>, << <<"x">>, <<"[">>, <<"1">>, <<"]">> >>, << <<"[">>, <<"x">>, <<",">>, <<"y">>, <<"]">> >>, << <<"{">>, <<"x">>, <<",">>, <<"y">>, <<"}">> >>, << <<"{">>, <<"x">>, <<":">>, <<"y">>, <<"}">> >>,
      << <<"n","e","w">>, <<"T">>, <<"(">>, <<"x">>, <<")">> >>, << <<"n","e","w">>, <<"T">>, <<"(">>, <<"x">>, <<")">>, <<"{">>, <<"m">>, <<";">>, <<"}">> >>, << <<"n","e","w">>, <<"T">>, <<"(">>, <<"x">>, <<")">>, <<"{">>, <<"x">>, <<":">>, <<"y">>, <<"}">> >>, << <<"n","e","w">>, <<"T">>, <<"(">>, <<"k">>, <<":">>, <<"x">>, <<")">>, <<"{">>, <<"x">>, <<",">>, <<"y">>, <<"}">> >>,
      << <<"n","e","w">>, <<"T">>, <<"{">>, <<"x">>, <<":">>, <<"y">>, <<"}">> >>, << <<"n","e","w">>, <<"T">>, <<"{">>, <<"x">>, <<",">>, <<"y">>, <<"}">> >>, << <<"n","e","w">>, <<"T">>, <<"{">>, <<"x">>, <<"}">> >>, << <<"n","e","w">>, <<"T">>, <<"{">>, <<"m">>, <<";">>, <<"}">> >>,
      << <<"(">>, <<"a">>, <<")">>, <<"[">>, <<"(">>, <<"i","n","t">>, <<")">>, <<"x">>, <<"?">>, <<"]">> >> }

\* an expression put in a context
WrapOnce(E) ==
    { E \o << <<"?">> >>, E \o << <<"?">>, <<";">> >>, E \o << <<"?">>, <<"<">>, <<"i","n","t">>, <<">">> >>, E \o << <<"?">>, <<"<">>, <<"T">>, <<">">> >>,
      E \o << <<"?">>, <<"y">>, <<":">>, <<"z">> >>, E \o << <<"?">>, <<"y">> >>, E \o << <<"+">>, <<"y">> >>,
      E \o << <<"?">>, <<")">> >>, E \o << <<"?">>, <<"]">> >>, E \o << <<"?">>, <<"}">> >>, E \o << <<"?">>, <<",">>, <<"y">> >>, E \o << <<"?">>, <<":">>, <<"z">> >>,
      << <<"(">>, <<"a">>, <<")">> >> \o E, << <<"(">>, <<"a">>, <<")">>, <<"[">> >> \o E, << <<"(">> >> \o E \o << <<")">> >>, << <<"(">> >> \o E,
      << <<"(">> >> \o E \o << <<"?">>, <<")">> >>, << <<"[">> >> \o E \o << <<"?">>, <<",">>, <<"y">>, <<"]">> >>, << <<"{">> >> \o E \o << <<"?">>, <<"}">> >>,
      << <<"[">> >> \o E \o << <<"]">> >>, << <<"x">>, <<"-",">">> >> \o E, << <<"f">>, <<"[">> >> \o E \o << <<"]">> >>,
      << <<"y">>, <<"?">> >> \o E \o << <<":">>, <<"z">> >> }

RECURSIVE Wrapped(_)
Wrapped(d) ==
    IF d = 0 THEN Atoms
    ELSE Bind(Wrapped(d - 1), LAMBDA inner :
             inner \cup UNION {WrapOnce(E) : E \in inner})

\* '( a ) [' n - 1 times, then '( a ) x': a cast or an indexed parenthesis
\* at each level, and no ']' that would close a bracket
RECURSIVE Nested(_)
Nested(n) == IF n = 1 THEN << <<"(">>, <<"a">>, <<")">>, <<"x">> >> ELSE << <<"(">>, <<"a">>, <<")">>, <<"[">> >> \o Nested(n - 1)

\* the letters that number the keys, the values and the elements
Letters == << "a", "b", "c", "d", "e", "f", "g", "h", "i", "j", "k", "l", "m" >>

\* the entries 'ka : va , kb : vb , ...' of a map literal, n of them
RECURSIVE Entries(_)
Entries(n) ==
    IF n = 0 THEN <<>>
    ELSE Entries(n - 1) \o (IF n = 1 THEN <<>> ELSE << <<",">> >>)
         \o << <<"k", Letters[n]>>, <<":">>, <<"v", Letters[n]>> >>

\* the elements 'ea , eb , ...' of a set literal, n of them
RECURSIVE Elements(_)
Elements(n) ==
    IF n = 0 THEN <<>>
    ELSE Elements(n - 1) \o (IF n = 1 THEN <<>> ELSE << <<",">> >>) \o << <<"e", Letters[n]>> >>

MapSource(n) == << <<"{">> >> \o Entries(n) \o << <<"}">> >>
SetSource(n) == << <<"{">> >> \o Elements(n) \o << <<"}">> >>

ExprSources ==
    Wrapped(MaxDepth)
    \cup {Nested(n) : n \in 1..MaxNest}
    \cup {MapSource(n) : n \in 1..MaxEntries}
    \cup {SetSource(n) : n \in 1..MaxEntries}
    \cup {<< <<"n","e","w">>, <<"T">> >> \o MapSource(n) : n \in 1..MaxEntries}

\* the features the expression productions read, and the calls that switch
\* off those of a choice
ExprFeatures ==
    << <<"l","i","t","e","r","a","l","s",".","o","p","t","i","o","n","a","l">>, <<"l","i","t","e","r","a","l","s",".","c","o","l","l","e","c","t","i","o","n","s">>, <<"e","x","p","r","e","s","s","i","o","n","s",".","c","l","a","s","s","_","c","r","e","a","t","o","r">> >>

RECURSIVE SwitchedOff(_, _)
SwitchedOff(off, i) ==
    IF i > Len(ExprFeatures) THEN <<>>
    ELSE (IF ExprFeatures[i] \in off THEN << Call(ExprFeatures[i], FALSE) >> ELSE <<>>)
         \o SwitchedOff(off, i + 1)

\* a parser constructed on the tokens of an expression, some features
\* disabled by enable_feature
InitExpr ==
    /\ tokens \in ExprSources
    /\ \E off \in SUBSET {ExprFeatures[i] : i \in 1..Len(ExprFeatures)} :
           /\ calls = SwitchedOff(off, 1)
           /\ flags = Replay(InitFlags, calls, 1)
    /\ prev_flags = flags
    /\ error = NoError
    /\ pc = "ready"
    /\ pos = 1
    /\ imports = <<>>
    /\ explicit = <<>>
    /\ injected = 0
    /\ order = 0
    /\ log = <<>>
    /\ entry = ""
    /\ tree = NoNode
    /\ attempts = <<>>
    /\ argv = [parse |-> "", enable |-> <<>>, disable |-> <<>>]

\* the parser state a production is entered with
Entered(obj) == [pos |-> 1, err |-> NoError, flags |-> obj, ev |-> <<>>, val |-> NoNode]

\* the production returned or raised
Left(r) ==
    /\ pc' = IF r.err = NoError THEN "parsed" ELSE "failed"
    /\ tree' = IF r.err = NoError THEN r.val ELSE NoNode
    /\ pos' = r.pos
    /\ error' = r.err
    /\ flags' = r.flags
    /\ attempts' = r.ev
    /\ UNCHANGED <<prev_flags, calls, tokens, imports, explicit, injected, order, log, argv>>

\* parser.parse_expr()
ParseExpr ==
    /\ pc = "ready"
    /\ entry' = "parse_expr"
    /\ \E r \in {parse_expr(tokens, Entered(flags))} : Left(r)

\* parser.parse_cast()
ParseCast ==
    /\ pc = "ready"
    /\ entry' = "parse_cast"
    /\ \E r \in {parse_cast(tokens, Entered(flags))} : Left(r)

\* parser.parse_primary()
ParsePrimary ==
    /\ pc = "ready"
    /\ entry' = "parse_primary"
    /\ \E r \in {parse_primary(tokens, Entered(flags))} : Left(r)

NextExpr == ParseExpr \/ ParseCast \/ ParsePrimary

SpecExpr == InitExpr /\ [][NextExpr]_vars

----------------------------------------------------------------------------
(* Properties of the expression productions, checked under SpecExpr *)

Events == 1..Len(attempts)
IsAttempt(i) == attempts[i].phase = "attempt"
IsFallback(i) == attempts[i].phase = "fallback"

\* the outcome of a production as its caller sees it
Outcome(r) == << r.err, r.pos, IF r.err = NoError THEN r.val ELSE NoNode >>

\* C13: an attempt that fails, by whatever exception, leaves the stream at
\* the position p it began at, and its fallback starts at p; an attempt that
\* succeeds leaves the stream where its body had read to. A failed lambda
\* attempt inside a cast restores to the token behind the cast's ')', a
\* failed cast attempt to the cast's '('.
C13_RollbackToCheckpoint ==
    \A i \in Events :
        LET e == attempts[i]
        IN  /\ (IsAttempt(i) /\ e.ok) => (e.resume = e.reached /\ e.reached > e.at)
            /\ (IsAttempt(i) /\ ~e.ok) => e.resume = e.at
            /\ IsFallback(i) => e.resume = e.at
            /\ (IsAttempt(i) /\ ~e.ok /\ e.site = "cast_lambda") =>
                   Token(tokens, e.at - 1) = <<")">>
            /\ (IsAttempt(i) /\ ~e.ok /\ e.site = "cast") => Token(tokens, e.at) = <<"(">>

\* '( a ) ( b ]': the lambda attempt behind the cast's ')' fails at ']' and
\* restores to 4, the cast attempt then fails at ']' and restores to 1, and
\* the fallback reads the parenthesis '( a )'
C13_Witness ==
    /\ tokens = << <<"(">>, <<"a">>, <<")">>, <<"(">>, <<"b">>, <<"]">> >> /\ entry = "parse_expr" /\ pc = "parsed" /\ pos = 4
    /\ \E i, j \in Events :
           /\ i < j
           /\ IsAttempt(i) /\ attempts[i].site = "cast_lambda" /\ ~attempts[i].ok
           /\ attempts[i].at = 4 /\ attempts[i].reached = 6 /\ attempts[i].resume = 4
           /\ IsAttempt(j) /\ attempts[j].site = "cast" /\ ~attempts[j].ok
           /\ attempts[j].at = 1 /\ attempts[j].reached = 6 /\ attempts[j].resume = 1

\* the outermost try statement of the entry production, and what the entry
\* production does when that statement's attempt is left out
EntrySite ==
    IF entry = "parse_expr" THEN "conditional"
    ELSE IF entry = "parse_cast" THEN "cast"
    ELSE "none"

WithoutAttempt ==
    IF entry = "parse_expr"
    THEN Then(parse_logic_or_expr(tokens, Entered(flags)),
              LAMBDA r : ConditionalRest(tokens, r))
    ELSE PostfixAndIncrement(tokens, Entered(flags))

\* C14: the JavaSyntaxError of a failed attempt is caught and the fallback
\* runs; what the caller of the entry production sees is what the fallback
\* alone gives: no error when the fallback and what follows it parse, the
\* fallback's own error when the fallback fails.
C14_AttemptErrorsStayInside ==
    entry # "" =>
        /\ \A i \in Events :
               (IsAttempt(i) /\ attempts[i].err.kind = "JavaSyntaxError") =>
                   \E j \in Events :
                       /\ j > i /\ IsFallback(j)
                       /\ attempts[j].site = attempts[i].site
                       /\ attempts[j].at = attempts[i].at
        /\ \A j \in Events :
               (IsFallback(j) /\ attempts[j].site = EntrySite /\ attempts[j].at = 1) =>
                   /\ << error, pos, tree >> = Outcome(WithoutAttempt)
                   /\ ~attempts[j].ok => error = attempts[j].err

\* '( a ) ( b ]' again: three attempts raised a JavaSyntaxError, and
\* parse_expr returns the parenthesis '( a )'
C14_Witness ==
    /\ tokens = << <<"(">>, <<"a">>, <<")">>, <<"(">>, <<"b">>, <<"]">> >> /\ entry = "parse_expr"
    /\ Cardinality({i \in Events : IsAttempt(i) /\ ~attempts[i].ok}) = 3
    /\ error = NoError /\ tree = Parenthesis(NameExpr("a"))

Sites == {"conditional", "cast", "cast_lambda"}

AttemptsAt(site, p) ==
    Cardinality({i \in Events :
                    IsAttempt(i) /\ attempts[i].site = site /\ attempts[i].at = p})

\* C15 as stated: no site of the input (a try statement at a token position)
\* makes more than three speculative attempts.
C15_BoundedBacktracking ==
    \A site \in Sites : \A p \in 1..Len(tokens) : AttemptsAt(site, p) <= 3

\* C16: the flags at the end of every attempt and of every fallback are the
\* flags of its start, and the production leaves the flags as the
\* enable_feature calls of the caller set them and logs no call of its own.
C16_NoFlagChangesWhileSpeculating ==
    entry # "" =>
        /\ \A i \in Events : attempts[i].kept
        /\ flags = Replay(InitFlags, calls, 1)
        /\ log = <<>>

\* a cast whose operand is a class creator with an argument, read as the
\* argument of a call inside the cast attempt
C16_Witness ==
    /\ tokens = << <<"(">>, <<"a">>, <<")">>, <<"n","e","w">>, <<"T">>, <<"(">>, <<"x">>, <<")">> >> /\ entry = "parse_expr" /\ pc = "parsed"
    /\ \E i \in Events : IsAttempt(i) /\ attempts[i].site = "cast" /\ attempts[i].ok
                          /\ attempts[i].kept
    /\ tree.node = "CastExpression"

\* the member access java.util.cls
JavaUtil(cls) ==
    MemberAccess(cls, MemberAccess("util", MemberAccess("java", NoNode)))

\* the tokens that make a '?' behind a condition an optional literal
Terminators == { <<"<">>, <<")">>, <<"]">>, <<"}">>, <<",">>, <<";">>, ENDMARKER }

\* C17: with the condition of the entry expression parsed and a '?' behind
\* it, parse_expr takes the optional-literal branch iff literals.optional is
\* enabled and the token behind the '?' is one of < ) ] } , ; or the end of
\* input: what it returns then is a call on java.util.Optional* with the
\* condition as its argument, and no true-branch is read. In every other
\* case it reads a true-branch, requires ':' and reads a false-branch, and
\* returns the ConditionalExpression of the three or raises the error of the
\* part that failed.
C17_OptionalLiteralOrTernary ==
    (entry = "parse_expr" /\ Condition(tokens, Entered(flags)).err = NoError) =>
        LET c == Condition(tokens, Entered(flags))
            t == parse_assignment(tokens, Skip(c, 1))
            f == parse_conditional(tokens, Skip(t, 1))
        IN  Token(tokens, c.pos) = <<"?">> =>
                IF Enabled(flags, <<"l","i","t","e","r","a","l","s",".","o","p","t","i","o","n","a","l">>)
                   /\ Token(tokens, c.pos + 1) \in Terminators
                THEN /\ pc = "parsed" =>
                            /\ tree.node = "FunctionCall"
                            /\ tree.name \in {"of", "ofNullable"}
                            /\ tree.object \in {JavaUtil("Optional"), JavaUtil("OptionalInt"),
                                                JavaUtil("OptionalDouble"), JavaUtil("OptionalLong")}
                            /\ tree.args = << c.val >>
                            /\ Token(tokens, c.pos + 1) # <<"<">> => pos = c.pos + 1
                     /\ pc = "failed" =>
                            \/ error.kind = "AttributeError"
                            \/ Token(tokens, c.pos + 1) = <<"<">> /\ error.at > c.pos + 1
                ELSE IF t.err # NoError THEN error = t.err
                ELSE IF Token(tokens, t.pos) # <<":">>
                THEN error = JavaSyntaxError("expected", <<":">>, t.pos)
                ELSE IF f.err # NoError THEN error = f.err
                ELSE /\ pc = "parsed" /\ pos = f.pos
                     /\ tree = ConditionalExpression(c.val, t.val, f.val)

\* 'x ? ;' with literals.optional enabled: the optional literal of x, the
\* ';' left in the stream
C17_Witness ==
    /\ tokens = << <<"x">>, <<"?">>, <<";">> >> /\ entry = "parse_expr" /\ Enabled(flags, <<"l","i","t","e","r","a","l","s",".","o","p","t","i","o","n","a","l">>)
    /\ pc = "parsed" /\ pos = 3
    /\ tree = FunctionCall("ofNullable", JavaUtil("Optional"), << NameExpr("x") >>, <<>>)

\* the class and the factory method C18 names for a value
OptionalOf(value) ==
    IF value.node = "CastExpression" /\ value.type = PrimitiveType("int")
    THEN << "OptionalInt", "of" >>
    ELSE IF value.node = "CastExpression" /\ value.type = PrimitiveType("double")
    THEN << "OptionalDouble", "of" >>
    ELSE IF value.node = "CastExpression" /\ value.type = PrimitiveType("long")
    THEN << "OptionalLong", "of" >>
    ELSE << "Optional", "ofNullable" >>

\* C18 as stated: with literals.optional enabled, a value followed by '?' and
\* a terminator other than '<' lowers to OptionalInt.of, OptionalDouble.of or
\* OptionalLong.of when the value is a cast to int, double or long, and to
\* Optional.ofNullable when it is anything else.
C18_OptionalLiteralTyping ==
    (entry = "parse_expr" /\ Enabled(flags, <<"l","i","t","e","r","a","l","s",".","o","p","t","i","o","n","a","l">>)
        /\ Condition(tokens, Entered(flags)).err = NoError) =>
        LET c == Condition(tokens, Entered(flags))
        IN  (Token(tokens, c.pos) = <<"?">> /\ Token(tokens, c.pos + 1) \in Terminators \ { <<"<">> }) =>
                /\ pc = "parsed"
                /\ tree = FunctionCall(OptionalOf(c.val)[2], JavaUtil(OptionalOf(c.val)[1]),
                                       << c.val >>, <<>>)

\* the state of a production entered at position p
EnteredAt(obj, p) == [Entered(obj) EXCEPT !.pos = p]

\* 'new' NAME read by parse_primary, the flags having expressions.class_creator
Creating ==
    /\ entry = "parse_primary" /\ Enabled(flags, <<"e","x","p","r","e","s","s","i","o","n","s",".","c","l","a","s","s","_","c","r","e","a","t","o","r">>)
    /\ Token(tokens, 1) = <<"n","e","w">> /\ IsName(Token(tokens, 2))

\* C19 as stated: in 'new Type ( ... ) { ... }' a brace block that starts
\* with an expression followed by ':' becomes a single map-literal argument,
\* one that is a comma-separated expression list a single list-literal
\* argument.
C19_BraceBlockBehindArguments ==
    (Creating /\ Token(tokens, 3) = <<"(">>
        /\ parse_args(tokens, EnteredAt(flags, 3)).err = NoError) =>
        LET a == parse_args(tokens, EnteredAt(flags, 3))
            e == parse_expr(tokens, Skip(a, 1))
        IN  (Token(tokens, a.pos) = <<"{">> /\ e.err = NoError
                /\ Token(tokens, e.pos) \in { <<":">>, <<",">> }) =>
                /\ pc = "parsed"
                /\ Len(tree.args) = 1
                /\ tree.args[1].node = "FunctionCall"
                /\ tree.args[1].object =
                       JavaUtil(IF Token(tokens, e.pos) = <<":">> THEN "Map" ELSE "List")

\* C19, amended: the brace block that is lowered stands directly behind the
\* type, without an argument list. When the expression that starts it is
\* followed by ':' the creator gets one argument, a call on java.util.Map;
\* when it is followed by ',' or '}' one argument, the call List.of; the
\* block is never a class body, and a first expression followed by anything
\* else is a syntax error. Behind an argument list the arguments are the
\* ones in parentheses and a brace block is the class body of the inherited
\* grammar.
C19_BraceBlockBehindType ==
    Creating =>
        LET e == parse_expr(tokens, EnteredAt(flags, 4))
            a == parse_args(tokens, EnteredAt(flags, 3))
        IN  /\ (Token(tokens, 3) = <<"{">> /\ e.err = NoError) =>
                   /\ pc = "parsed" =>
                          /\ tree.node = "ClassCreator"
                          /\ tree.type = GenericType(Str(Token(tokens, 2)))
                          /\ tree.members = NoNode
                          /\ Len(tree.args) = 1
                          /\ tree.args[1].node = "FunctionCall"
                          /\ IF Token(tokens, e.pos) = <<":">>
                             THEN /\ tree.args[1].object = JavaUtil("Map")
                                  /\ tree.args[1].name \in {"of", "ofEntries"}
                                  /\ tree.args[1].name = "of" => tree.args[1].args[1] = e.val
                             ELSE /\ tree.args[1].object = JavaUtil("List")
                                  /\ tree.args[1].name = "of"
                                  /\ tree.args[1].args[1] = e.val
                   /\ Token(tokens, e.pos) \notin { <<":">>, <<",">>, <<"}">> } => pc = "failed"
                   /\ Token(tokens, e.pos) = <<"}">> => pc = "parsed"
                   /\ (Token(tokens, e.pos) = <<":">>
                          /\ parse_expr(tokens, Skip(e, 1)).err = NoError
                          /\ Token(tokens, parse_expr(tokens, Skip(e, 1)).pos) = <<"}">>) =>
                          pc = "parsed"
            /\ (Token(tokens, 3) = <<"(">> /\ a.err = NoError /\ pc = "parsed") =>
                   /\ tree.node = "ClassCreator"
                   /\ tree.args = a.val
                   /\ tree.members.node =
                          IF Token(tokens, a.pos) = <<"{">> THEN "ClassBody" ELSE "None"

\* 'new T { x : y }': the creator of T with the one argument Map.of(x, y)
C19_Witness ==
    /\ tokens = << <<"n","e","w">>, <<"T">>, <<"{">>, <<"x">>, <<":">>, <<"y">>, <<"}">> >> /\ Creating /\ pc = "parsed"
    /\ tree = ClassCreator(GenericType("T"),
                  << FunctionCall("of", JavaUtil("Map"),
                                  << NameExpr("x"), NameExpr("y") >>, <<>>) >>,
                  <<>>, NoNode)

\* the keys and values, the entries and the elements the sources number
KeyValues(n) ==
    [i \in 1..2 * n |-> NameExpr((IF i % 2 = 1 THEN "k" ELSE "v") \o Letters[(i + 1) \div 2])]
MapEntries(n) ==
    [i \in 1..n |-> FunctionCall("entry", JavaUtil("Map"),
                        << NameExpr("k" \o Letters[i]), NameExpr("v" \o Letters[i]) >>, <<>>)]
SetElements(n) == [i \in 1..n |-> NameExpr("e" \o Letters[i])]

\* C20: with literals.collections enabled, a brace literal whose first
\* element is not followed by ':' is the call Set.of on its elements, and one
\* whose first element is followed by ':' is Map.of on the keys and values in
\* turn when it has at most ten entries and Map.ofEntries on one
\* Map.entry(key, value) per entry when it has more, all in source order.
C20_SetAndMapLiterals ==
    (entry = "parse_primary" /\ Enabled(flags, <<"l","i","t","e","r","a","l","s",".","c","o","l","l","e","c","t","i","o","n","s">>)) =>
        /\ \A n \in 1..MaxEntries :
               /\ tokens = SetSource(n) =>
                      /\ pc = "parsed" /\ pos = Len(tokens) + 1
                      /\ tree = FunctionCall("of", JavaUtil("Set"), SetElements(n), <<>>)
               /\ tokens = MapSource(n) =>
                      /\ pc = "parsed" /\ pos = Len(tokens) + 1
                      /\ tree = IF n <= 10
                                THEN FunctionCall("of", JavaUtil("Map"), KeyValues(n), <<>>)
                                ELSE FunctionCall("ofEntries", JavaUtil("Map"),
                                                  MapEntries(n), <<>>)
        /\ (Token(tokens, 1) = <<"{">> /\ pc = "parsed"
                /\ parse_expr(tokens, EnteredAt(flags, 2)).err = NoError) =>
               LET e == parse_expr(tokens, EnteredAt(flags, 2))
               IN  /\ tree.node = "FunctionCall" /\ tree.name \in {"of", "ofEntries"}
                   /\ tree.object =
                          JavaUtil(IF Token(tokens, e.pos) = <<":">> THEN "Map" ELSE "Set")
                   /\ tree.name = "of" => tree.args[1] = e.val

\* the map literal of eleven entries
C20_Witness ==
    /\ tokens = MapSource(11) /\ entry = "parse_primary"
    /\ Enabled(flags, <<"l","i","t","e","r","a","l","s",".","c","o","l","l","e","c","t","i","o","n","s">>) /\ pc = "parsed"
    /\ tree.name = "ofEntries" /\ Len(tree.args) = 11
    /\ tree.args[11] = FunctionCall("entry", JavaUtil("Map"),
                                    << NameExpr("kk"), NameExpr("vk") >>, <<>>)

----------------------------------------------------------------------------
(* The type declarations of a compilation unit and its later import sections *)

\* lines 316-324, the tables iterated in their k-th order; types counts the
\* declarations parsed so far. A type declaration of the streams is
\* 'class' NAME '{' '}'
RECURSIVE parse_type_declarations(_, _, _, _)
parse_type_declarations(T, s, k, types) ==
    LET parse_type_declaration(s0) ==
            IF Token(T, s0.pos) = <<"c","l","a","s","s">> /\ IsName(Token(T, s0.pos + 1))
               /\ would_accept(T, s0.pos + 2, << <<"{">>, <<"}">> >>)
            THEN [s0 EXCEPT !.pos = @ + 4]
            ELSE [s0 EXCEPT !.err = JavaSyntaxError("expected", <<"c","l","a","s","s">>, s0.pos)]
        extended(r) ==
            [s EXCEPT !.pos = r.pos, !.flags = r.flags, !.log = @ \o r.log,
                      !.err = r.err, !.imports = @ \o r.imports,
                      !.explicit = @ \o r.explicit]
    IN  IF s.err # NoError THEN s
        ELSE IF types = 0
        THEN Bind(parse_type_declaration(s), LAMBDA s1 :
                 parse_type_declarations(T, s1, k, 1))
        ELSE IF Token(T, s.pos) = ENDMARKER THEN s
        ELSE IF Token(T, s.pos) = <<";">>
        THEN parse_type_declarations(T, [s EXCEPT !.pos = @ + 1], k, types)
        ELSE IF Flag(s.flags, "multiple_import_sections_syntax")
                /\ Token(T, s.pos) \in { <<"f","r","o","m">>, <<"i","m","p","o","r","t">> }
        THEN Bind(parse_import_section(T, s.pos, s.flags, k), LAMBDA r :
                 parse_type_declarations(T, extended(r), k, types))
        ELSE Bind(parse_type_declaration(s), LAMBDA s1 :
                 parse_type_declarations(T, s1, k, types + 1))

\* the inherited parse_compilation_unit: the import section at the head of the
\* unit, then parse_type_declarations(imports=imports); head is where the
\* injected block of the first section ends
parse_compilation_unit(T, p, obj, k) ==
    Bind(parse_import_section(T, p, obj, k), LAMBDA head :
        Bind(parse_type_declarations(T,
                 [pos |-> head.pos, flags |-> head.flags, log |-> head.log,
                  err |-> head.err, imports |-> head.imports,
                  explicit |-> head.explicit], k, 0), LAMBDA r :
            [pos |-> r.pos, flags |-> r.flags, log |-> r.log, err |-> r.err,
             imports |-> r.imports, explicit |-> r.explicit,
             head |-> head.auto_import_index]))

----------------------------------------------------------------------------
(* main(): the command line *)

\* how many arguments a print statement, an argument list or a literal holds
MaxArgs == 3

\* the enable_feature calls the options ask for: 'for features in
\* enabled_features: for feature in features.split(',')', then the same for
\* disabled_features (lines 233-238 and 325-330)
OptionCalls(a) ==
    LET each(options, enabled) ==
            Flatten([i \in 1..Len(options) |->
                       Bind(split(options[i], ","), LAMBDA names :
                           [j \in 1..Len(names) |-> Call(names[j], enabled)])])
    IN  each(a.enable, TRUE) \o each(a.disable, FALSE)

\* main(args): a parser constructed on the code or on the file the command
\* line names
InitMain ==
    LET names(n) == [i \in 1..n |-> << Letters[i] >>]
        listed(n) == [j \in 1..2 * n - 1 |->
                        IF j % 2 = 1 THEN << Letters[(j + 1) \div 2] >> ELSE <<",">>]
        arguments == UNION {{names(n), listed(n), listed(n) \o << <<",">> >>} : n \in 1..MaxArgs}
        statements ==
            {word \o a \o << <<";">> >> : word \in {<< <<"p","r","i","n","t","l","n">> >>, << <<"p","r","i","n","t">> >>, << <<"p","r","i","n","t","f">> >>, << <<"p","r","i","n","t","f","l","n">> >>},
                                 a \in arguments \cup {<<>>}}
            \cup {<< <<"p","r","i","n","t","l","n">>, <<"a">>, <<",">>, <<"b">> >>, << <<"p","r","i","n","t">>, <<"a">>, <<":">>, <<"b">>, <<";">> >>, << <<"p","r","i","n","t","l","n">>, <<"k">>, <<":">>, <<"a">>, <<",">>, <<"b">>, <<";">> >>,
                  << <<"x">>, <<";">> >>, << <<";">> >>, << <<"x">> >>}
        lists == {open \o a \o close :
                     open \in {<< <<"(">> >>}, close \in {<< <<")">> >>},
                     a \in arguments \cup {<<>>, << <<",">> >>, << <<"a">>, <<",">>, <<",">>, <<"b">> >>, << <<"k">>, <<":">>, <<"a">>, <<",">>, <<"b">> >>}}
        literals ==
            UNION {{<< <<"[">> >> \o listed(n) \o << <<"]">> >>, << <<"[">> >> \o listed(n) \o << <<",">>, <<"]">> >>,
                    << <<"{">> >> \o listed(n) \o << <<"}">> >>, << <<"{">> >> \o listed(n) \o << <<",">>, <<"}">> >>} :
                   n \in 1..MaxArgs}
            \cup {<< <<"{">>, <<"k">>, <<":">>, <<"v">>, <<"}">> >>, << <<"{">>, <<"k">>, <<":">>, <<"v">>, <<",">>, <<"}">> >>, << <<"{">>, <<"k">>, <<":">>, <<"v">>, <<",">>, <<"l">>, <<":">>, <<"w">>, <<"}">> >>,
                  << <<"{">>, <<"k">>, <<":">>, <<"v">>, <<",">>, <<"l">>, <<":">>, <<"w">>, <<",">>, <<"}">> >>, << <<"{">>, <<"k">>, <<":">>, <<"v">>, <<",">>, <<"]">> >>, << <<"[">>, <<",">>, <<"]">> >>, << <<"{">>, <<",">>, <<"}">> >>,
                  << <<"[">>, <<"a">>, <<",">>, <<",">>, <<"]">> >>, << <<"{">>, <<"a">>, <<",">>, <<",">>, <<"}">> >>, << <<"n","e","w">>, <<"T">>, <<"(">>, <<"a">>, <<",">>, <<"b">>, <<",">>, <<")">> >>, << <<"n","e","w">>, <<"T">>, <<"(">>, <<"a">>, <<",">>, <<"b">>, <<")">> >>,
                  << <<"n","e","w">>, <<"T">>, <<"{">>, <<"a">>, <<",">>, <<"b">>, <<",">>, <<"}">> >>, << <<"n","e","w">>, <<"T">>, <<"{">>, <<"k">>, <<":">>, <<"v">>, <<",">>, <<"}">> >>}
        units ==
            {<< <<"c","l","a","s","s">>, <<"C">>, <<"{">>, <<"}">> >>,
             << <<"c","l","a","s","s">>, <<"C">>, <<"{">>, <<"}">>, <<"i","m","p","o","r","t">>, <<"a">>, <<".">>, <<"B">>, <<";">>, <<"c","l","a","s","s">>, <<"D">>, <<"{">>, <<"}">> >>,
             << <<"i","m","p","o","r","t">>, <<"j","a","v","a">>, <<".">>, <<"u","t","i","l">>, <<".">>, <<"L","i","s","t">>, <<";">>, <<"c","l","a","s","s">>, <<"C">>, <<"{">>, <<"}">>, <<"i","m","p","o","r","t">>, <<"j","a","v","a">>, <<".">>, <<"u","t","i","l">>, <<".">>, <<"M","a","p">>, <<";">>, <<"c","l","a","s","s">>, <<"D">>, <<"{">>, <<"}">> >>,
             << <<"c","l","a","s","s">>, <<"C">>, <<"{">>, <<"}">>, <<"f","r","o","m">>, <<"a">>, <<"i","m","p","o","r","t">>, <<"B">>, <<";">>, <<";">>, <<"c","l","a","s","s">>, <<"D">>, <<"{">>, <<"}">>, <<"i","m","p","o","r","t">>, <<"c">>, <<".">>, <<"E">>, <<";">> >>,
             << <<"i","m","p","o","r","t">>, <<"j","a","v","a">>, <<".">>, <<"u","t","i","l">>, <<".">>, <<"*">>, <<";">>, <<"c","l","a","s","s">>, <<"C">>, <<"{">>, <<"}">>, <<"u","n","i","m","p","o","r","t">>, <<"j","a","v","a">>, <<"+","+">>, <<".">>, <<"a","u","t","o","_","i","m","p","o","r","t","s">>, <<".">>, <<"*">>, <<";">>, <<"c","l","a","s","s">>, <<"D">>, <<"{">>, <<"}">> >>,
             << <<"c","l","a","s","s">>, <<"C">>, <<"{">>, <<"}">>, <<"i","m","p","o","r","t">>, <<"j","a","v","a">>, <<".">>, <<"u","t","i","l">>, <<".">>, <<"L","i","s","t">>, <<";">> >>,
             << <<"c","l","a","s","s">>, <<"C">>, <<"{">>, <<"}">>, <<"i","m","p","o","r","t">>, <<"a">>, <<".">>, <<"B">> >>,
             << <<"i","m","p","o","r","t">>, <<"a">>, <<".">>, <<"B">>, <<";">> >>}
    IN  /\ argv \in [parse : {"", "statement", "args"},
                     enable : {<<>>, << <<"t","r","a","i","l","i","n","g","_","c","o","m","m","a","s",".","o","t","h","e","r">> >>},
                     disable : {<<>>, << <<"s","t","a","t","e","m","e","n","t","s",".","p","r","i","n","t">> >>,
                                << <<"t","r","a","i","l","i","n","g","_","c","o","m","m","a","s",".","a","r","g","u","m","e","n","t",",","l","i","t","e","r","a","l","s",".","c","o","l","l","e","c","t","i","o","n","s">> >>,
                                << <<"a","u","t","o","_","i","m","p","o","r","t","s",".","t","y","p","e","s">>, <<"s","y","n","t","a","x",".","*">> >>,
                                << <<"f","o","o">>, <<"a","u","t","o","_","i","m","p","o","r","t","s",".","*">> >>}]
        /\ tokens \in CASE argv.parse = "statement" -> statements
                        [] argv.parse = "args" ->
                                 lists \cup {<< <<"(">> >> \o e \o << <<")">> >> : e \in literals}
                        [] OTHER -> units
        /\ flags = InitFlags
        /\ prev_flags = InitFlags
        /\ calls = <<>>
        /\ error = NoError
        /\ pc = "ready"
        /\ pos = 1
        /\ imports = <<>>
        /\ explicit = <<>>
        /\ injected = 0
        /\ order = 0
        /\ log = <<>>
        /\ entry = ""
        /\ tree = NoNode
        /\ attempts = <<>>

\* one parser.enable_feature(feature[, False]) of the option loops: before the
\* parse in the --parse mode (lines 232-240), behind it in the file mode (lines
\* 324-332); on a ValueError error(e) prints it and calls exit(1) (lines
\* 108-111)
EnableOption ==
    /\ \/ argv.parse # "" /\ pc = "ready"
       \/ argv.parse = "" /\ pc = "parsed"
    /\ Len(calls) < Len(OptionCalls(argv))
    /\ \E c \in {OptionCalls(argv)[Len(calls) + 1]} :
           /\ \E r \in {enable_feature(flags, c.feature, c.enabled)} :
                  /\ flags' = r.flags
                  /\ error' = r.error
                  /\ pc' = IF r.error.kind = "ValueError" THEN "exited" ELSE pc
           /\ calls' = Append(calls, c)
    /\ prev_flags' = flags
    /\ UNCHANGED <<tokens, pos, imports, explicit, injected, order, log,
                   entry, tree, attempts, argv>>

\* unit = getattr(parser, 'parse_' + parse)(), line 243, reached when the
\* option loops are left
ParseMethod ==
    /\ argv.parse # ""
    /\ pc = "ready"
    /\ Len(calls) = Len(OptionCalls(argv))
    /\ entry' = "parse_" \o argv.parse
    /\ \E r \in {IF argv.parse = "statement"
                THEN parse_statement(tokens, Entered(flags))
                ELSE parse_args(tokens, Entered(flags))} : Left(r)

\* unit = parser.parse_compilation_unit(), line 322
ParseCompilationUnit(k) ==
    /\ argv.parse = ""
    /\ pc = "ready"
    /\ \E r \in {parse_compilation_unit(tokens, pos, flags, k)} :
           /\ pc' = IF r.err = NoError THEN "parsed" ELSE "failed"
           /\ flags' = r.flags
           /\ log' = r.log
           /\ error' = r.err
           /\ pos' = r.pos
           /\ imports' = IF r.err = NoError THEN r.imports ELSE <<>>
           /\ explicit' = r.explicit
           /\ injected' = r.head
    /\ order' = k
    /\ entry' = "parse_compilation_unit"
    /\ UNCHANGED <<prev_flags, calls, tokens, tree, attempts, argv>>

NextMain ==
    \/ EnableOption
    \/ ParseMethod
    \/ \E k \in IterOrders : ParseCompilationUnit(k)

SpecMain == InitMain /\ [][NextMain]_vars

----------------------------------------------------------------------------
(* Properties of the print statements, the argument lists, the collection  *)
(* literals and the command line, checked under SpecMain                   *)

\* the statement of the stream is 'print' or 'println', then names separated
\* by ',' or by nothing, then ';', and was parsed with statements.print on
PrintsNames ==
    /\ entry = "parse_statement" /\ pc = "parsed"
    /\ Flag(flags, "print_statements")
    /\ Token(tokens, 1) \in { <<"p","r","i","n","t">>, <<"p","r","i","n","t","l","n">> }
    /\ Len(tokens) >= 3
    /\ \A i \in 2..Len(tokens) - 1 : IsName(tokens[i]) \/ tokens[i] = <<",">>

\* the arguments as the source lists them
PrintedNames == SelectSeq(SubSeq(tokens, 2, Len(tokens) - 1), LAMBDA t : t # <<",">>)

\* System.out.name(arg);
SystemOutCall(name, arg) ==
    [node |-> "ExpressionStatement",
     expr |-> FunctionCall(name,
                  MemberAccess("out", MemberAccess("System", MemberAccess("lang",
                      MemberAccess("java", NoNode)))), << arg >>, <<>>)]

\* C21: with statements.print enabled, 'print' / 'println' with n >= 2
\* arguments is one block of exactly 2n-1 calls on System.out: the arguments
\* in source order, a call printing the single-space literal between each
\* adjacent pair, every argument call 'print' except the last one of
\* 'println', which is 'println'; with one argument it is a single call and
\* no block.
C21_PrintLowering ==
    PrintsNames =>
        LET a == PrintedNames
            n == Len(a)
            last == IF Token(tokens, 1) = <<"p","r","i","n","t","l","n">> THEN "println" ELSE "print"
        IN  IF n = 1
            THEN tree = SystemOutCall(last, NameExpr(Str(a[1])))
            ELSE /\ tree.node = "Block"
                 /\ Len(tree.stmts) = 2 * n - 1
                 /\ \A i \in 1..n :
                        tree.stmts[2 * i - 1] =
                            SystemOutCall(IF i < n THEN "print" ELSE last,
                                          NameExpr(Str(a[i])))
                 /\ \A i \in 1..n - 1 :
                        tree.stmts[2 * i] =
                            SystemOutCall("print", [node |-> "Literal", value |-> "' '"])

\* 'println a , b , c ;' was lowered to a block of five calls, and
\* 'println a ;' to a single call
C21_Witness ==
    /\ PrintsNames
    /\ \/ tokens = << <<"p","r","i","n","t","l","n">>, <<"a">>, <<",">>, <<"b">>, <<",">>, <<"c">>, <<";">> >> /\ tree.node = "Block" /\ Len(tree.stmts) = 5
       \/ tokens = << <<"p","r","i","n","t">>, <<"a">>, <<"b">>, <<";">> >> /\ tree.node = "Block" /\ Len(tree.stmts) = 3

\* parse_args has run on '(' names separated by ',' ')', with or without a
\* ',' before the ')'
ListsNames ==
    /\ entry = "parse_args" /\ pc \in {"parsed", "failed"}
    /\ Len(tokens) >= 3
    /\ tokens[1] = <<"(">> /\ tokens[Len(tokens)] = <<")">>
    /\ \A i \in 2..Len(tokens) - 1 :
           IF i % 2 = 0 THEN IsName(tokens[i]) ELSE tokens[i] = <<",">>

\* the arguments as the source lists them
ListedNames == SelectSeq(SubSeq(tokens, 2, Len(tokens) - 1), LAMBDA t : t # <<",">>)

\* C22: with trailing_commas.argument enabled 'f(a, b,)' yields the argument
\* list of 'f(a, b)', the comma discarded and no argument added; with the
\* feature disabled a comma directly before the closing ')' is a syntax
\* error.
C22_TrailingArgumentComma ==
    /\ ListsNames =>
           IF tokens[Len(tokens) - 1] # <<",">> \/ Flag(flags, "argument_trailing_commas")
           THEN /\ pc = "parsed"
                /\ tree = [i \in 1..Len(ListedNames) |-> NameExpr(Str(ListedNames[i]))]
                /\ pos = Len(tokens) + 1
           ELSE pc = "failed" /\ error.kind = "JavaSyntaxError"
    /\ (/\ entry = "parse_args" /\ pc \in {"parsed", "failed"}
        /\ Len(tokens) >= 2 /\ tokens[Len(tokens) - 1] = <<",">>
        /\ ~Flag(flags, "argument_trailing_commas"))
           => pc = "failed" /\ error.kind = "JavaSyntaxError"

\* '( a , b , )' gave the two arguments a and b with the feature enabled, and
\* a syntax error with the feature disabled on the command line
C22_Witness ==
    /\ ListsNames
    /\ tokens = << <<"(">>, <<"a">>, <<",">>, <<"b">>, <<",">>, <<")">> >>
    /\ \/ Flag(flags, "argument_trailing_commas") /\ pc = "parsed" /\ Len(tree) = 2
       \/ ~Flag(flags, "argument_trailing_commas") /\ pc = "failed"

\* C25: the features given with --enable / --disable are the parser's
\* defaults: in the --parse mode and in the file mode every enable_feature
\* call the options cause happens before the parser consumes its first token,
\* so once a parse method has been entered no call is outstanding.
C25_OptionsBeforeParsing ==
    entry # "" => Len(calls) = Len(OptionCalls(argv))

\* C26: after a compilation unit with two or more import sections is parsed,
\* its combined import sequence holds each auto-injected record at most once:
\* a record the first section injected stands behind that block again only
\* where the source names it in an import of its own.
C26_InjectedAtMostOnce ==
    (/\ entry = "parse_compilation_unit" /\ pc = "parsed"
     /\ \E p \in 1..Len(tokens) : \E q \in p + 1..Len(tokens) :
            tokens[p] = <<"c","l","a","s","s">> /\ tokens[q] \in { <<"i","m","p","o","r","t">>, <<"f","r","o","m">> })
        => \A i \in 1..injected : \A j \in injected + 1..Len(imports) :
               imports[j] = imports[i]
                   => \E e \in 1..Len(explicit) : explicit[e] = imports[j]

\* parse_args has run, with literals.collections on, on an argument list that
\* is one collection literal open ... ',' close
TrailingCommaLiteral(open, close) ==
    /\ entry = "parse_args" /\ pc \in {"parsed", "failed"}
    /\ Flag(flags, "collections_literals")
    /\ Len(tokens) >= 6
    /\ tokens[1] = <<"(">> /\ tokens[Len(tokens)] = <<")">>
    /\ tokens[2] = open /\ tokens[Len(tokens) - 1] = close
    /\ tokens[Len(tokens) - 2] = <<",">>

\* the tokens between the brackets are names, each followed by a ','
CommaEndedNames ==
    \A i \in 3..Len(tokens) - 2 :
        IF i % 2 = 1 THEN IsName(tokens[i]) ELSE tokens[i] = <<",">>

\* the tokens between the brackets are entries name ':' name, each followed
\* by a ','
CommaEndedEntries ==
    /\ (Len(tokens) - 4) % 4 = 0
    /\ \A i \in 3..Len(tokens) - 2 :
           CASE (i - 3) % 4 \in {0, 2} -> IsName(tokens[i])
             [] (i - 3) % 4 = 1 -> tokens[i] = <<":">>
             [] OTHER -> tokens[i] = <<",">>

\* the names between the brackets, as expressions
LiteralNames ==
    Bind(SelectSeq(SubSeq(tokens, 3, Len(tokens) - 2), LAMBDA t : IsName(t)),
         LAMBDA names : [i \in 1..Len(names) |-> NameExpr(Str(names[i]))])

\* C27: with literals.collections enabled a single trailing comma directly
\* before the closing bracket is accepted by all three collection literals and
\* yields the factory call of the literal without it: '[a, b,]' as '[a, b]',
\* '{a, b,}' as '{a, b}', '{k: v,}' as '{k: v}'.
C27_TrailingCommaInLiterals ==
    /\ (TrailingCommaLiteral(<<"[">>, <<"]">>) /\ CommaEndedNames)
           => pc = "parsed" /\ tree = << make_list_literal(LiteralNames) >>
    /\ (TrailingCommaLiteral(<<"{">>, <<"}">>) /\ CommaEndedNames)
           => pc = "parsed" /\ tree = << make_set_literal(LiteralNames) >>
    /\ (TrailingCommaLiteral(<<"{">>, <<"}">>) /\ CommaEndedEntries)
           => /\ pc = "parsed"
              /\ tree = << make_map_literal(
                               [i \in 1..Len(LiteralNames) \div 2 |->
                                   << LiteralNames[2 * i - 1], LiteralNames[2 * i] >>]) >>

====
